---- MODULE Spec2Model ----
(***************************************************************************)
(* Model of forgeron: the Bayesian-network sampling engine                 *)
(* (bayesianNetwork, node) and the header generator built on it            *)
(* (HeaderGenerator.GenerateHeaders with its fallback chain).              *)
(*                                                                         *)
(* Strings are TLA+ strings; maps are functions whose DOMAIN is the key    *)
(* set; slices are sequences.  Probabilities are integers in tenths        *)
(* (0.6 is 6) and the uniform draw rand.Float64() in [0,1) is an integer   *)
(* anchor in 0..Unit-1.                                                    *)
(***************************************************************************)
EXTENDS Integers, Sequences, FiniteSets, TLC

VARIABLES
    bn,                 \* the network a sampling call runs on
    valuePossibilities, \* restriction map of the running restricted search
    sampleSoFar,        \* the partial assignment the search mutates
    stack,              \* activation records of recursivelyGenerate..., bottom first
    ret,                \* value returned by the callee that just finished
    inputValues,        \* seed handed to generateSample
    sample,             \* assignment returned by generateSample
    pc,                 \* position of the caller of the network
    callerOptions,        \* argument of the outermost GenerateHeaders call
    calls,              \* activation records of GenerateHeaders, bottom first
    hret,               \* what the GenerateHeaders call that just ended returned
    fnArg,              \* argument of a function of the package called on its own
    fnRes,              \* what that function returned
    generator,          \* the fields of the shared *FingerprintGenerator
    built,              \* the fields of generator when NewFingerprintGenerator returned
    threads             \* the goroutines calling Generate on it: position and locals

vars == <<bn, valuePossibilities, sampleSoFar, stack, ret, inputValues, sample,
          pc, callerOptions, calls, hret, fnArg, fnRes, generator, built, threads>>

hdrVars == <<callerOptions, calls, hret>>

fnVars == <<fnArg, fnRes>>

fpVars == <<generator, built, threads>>

\* no function has been called on its own
NoFn == fnArg = <<>> /\ fnRes = <<>>

\* no fingerprint generator has been constructed
NoGenerator == generator = <<>> /\ built = <<>> /\ threads = <<>>

-----------------------------------------------------------------------------
(* Bounds of the model *)

\* longest restriction list handed directly to the restricted search
MaxListLen == 2

\* weights are expressed in 1/Unit; anchors range over 0..Unit-1
Unit == 10

\* deepest nesting of GenerateHeaders calls the model follows
MaxCalls == 4

Anchors == 0 .. (Unit - 1)

-----------------------------------------------------------------------------
(* Go maps and slices *)

EmptyMap == [k \in {} |-> ""]

Put(m, k, v) == [x \in (DOMAIN m) \cup {k} |-> IF x = k THEN v ELSE m[x]]

\* the key stays in the map
Delete_KeepsKey(m, k) == m

\* delete(m, k)
Delete(m, k) == [x \in (DOMAIN m) \ {k} |-> m[x]]

\* m[k] of a map[string]string: the zero value "" when k is absent
Get(m, k) == IF k \in DOMAIN m THEN m[k] ELSE ""

Range(s) == {s[i] : i \in DOMAIN s}

Contains(s, v) == \E i \in DOMAIN s : s[i] = v

\* all sequences over S of length at most n
SeqsUpTo(S, n) == UNION {[1..k -> S] : k \in 0..n}

\* all orders in which a Go range loop may visit the keys of a map
Orders(S) == {o \in [1..Cardinality(S) -> S] : Range(o) = S}

RECURSIVE SelectSeq2(_, _, _)
SelectSeq2(s, i, keep) ==
    IF i > Len(s) THEN <<>>
    ELSE IF s[i] \in keep THEN <<s[i]>> \o SelectSeq2(s, i + 1, keep)
         ELSE SelectSeq2(s, i + 1, keep)

-----------------------------------------------------------------------------
(* Go strings: a string is its sequence of one-character strings *)

Char(s, i) == SubSeq(s, i, i)

\* strings.HasPrefix
HasPrefix(s, prefix) ==
    Len(s) >= Len(prefix) /\ SubSeq(s, 1, Len(prefix)) = prefix

\* strings.Contains
ContainsStr(s, sub) ==
    \E i \in 1..(Len(s) - Len(sub) + 1) : SubSeq(s, i, i + Len(sub) - 1) = sub

RECURSIVE SplitFrom(_, _, _, _)
\* the pieces of s from position i on, start being where the current piece began
SplitFrom(s, sep, i, start) ==
    IF i > Len(s) THEN <<SubSeq(s, start, Len(s))>>
    ELSE IF Char(s, i) = sep
         THEN <<SubSeq(s, start, i - 1)>> \o SplitFrom(s, sep, i + 1, i + 1)
         ELSE SplitFrom(s, sep, i + 1, start)

\* strings.Split on a one-character separator
Split(s, sep) == SplitFrom(s, sep, 1, 1)

RECURSIVE JoinFrom(_, _, _)
JoinFrom(parts, sep, i) ==
    IF i > Len(parts) THEN ""
    ELSE IF i = Len(parts) THEN parts[i]
         ELSE parts[i] \o sep \o JoinFrom(parts, sep, i + 1)

\* strings.Join
Join(parts, sep) == JoinFrom(parts, sep, 1)

\* fmt's %v of a []string or []error: [a b c]
FmtList(parts) == "[" \o Join(parts, " ") \o "]"

Digits == "0123456789"

IsDigit(c) == \E d \in 1..10 : Char(Digits, d) = c

DigitValue(c) == (CHOOSE d \in 1..10 : Char(Digits, d) = c) - 1

RECURSIVE ScanDigits(_, _, _)
ScanDigits(s, i, acc) ==
    IF i > Len(s) \/ ~IsDigit(Char(s, i)) THEN acc
    ELSE ScanDigits(s, i + 1, acc * 10 + DigitValue(Char(s, i)))

\* atoi of utils.go: fmt.Sscanf(s, "%d", &result) reads the leading decimal
\* digits and leaves 0 when there are none
atoi(s) == ScanDigits(s, 1, 0)

-----------------------------------------------------------------------------
(* Conditional probability tables: map[string]interface{} with the         *)
(* sentinel keys "deeper" and "skip"; probs holds the float64 entries.     *)

Leaf(p) == [probs |-> p, hasDeeper |-> FALSE, hasSkip |-> FALSE]

Branch(d, s) == [probs |-> EmptyMap, hasDeeper |-> TRUE, deeper |-> d,
                 hasSkip |-> TRUE, skip |-> s]

BranchNoSkip(d) == [probs |-> EmptyMap, hasDeeper |-> TRUE, deeper |-> d,
                    hasSkip |-> FALSE]

Node(name, parentNames, possibleValues, cpt) ==
    [Name |-> name, ParentNames |-> parentNames,
     PossibleValues |-> possibleValues, ConditionalProbs |-> cpt]

\* the two-node network of the package's unit tests
ToyNetwork ==
    [NodesInSamplingOrder |-> <<
        Node("A", <<>>, <<"a1", "a2">>,
             Leaf([v \in {"a1", "a2"} |-> IF v = "a1" THEN 6 ELSE 4])),
        Node("B", <<"A">>, <<"b1", "b2">>,
             BranchNoSkip([a \in {"a1", "a2"} |->
                IF a = "a1"
                THEN Leaf([v \in {"b1", "b2"} |-> IF v = "b1" THEN 7 ELSE 3])
                ELSE Leaf([v \in {"b1", "b2"} |-> IF v = "b1" THEN 2 ELSE 8])]))
     >>]

\* a three-node chain with a path-compressed table: X = x1 forces Y = y1 and
\* Z = z1, every other X leaves Y free and puts Z's mass on z2 only
ChainNetwork ==
    [NodesInSamplingOrder |-> <<
        Node("X", <<>>, <<"x1", "x2">>,
             Leaf([v \in {"x1", "x2"} |-> 5])),
        Node("Y", <<"X">>, <<"y1", "y2">>,
             Branch([x \in {"x1"} |-> Leaf([v \in {"y1"} |-> 10])],
                    Leaf([v \in {"y1", "y2"} |-> IF v = "y1" THEN 3 ELSE 7]))),
        Node("Z", <<"X", "Y">>, <<"z1", "z2">>,
             Branch([x \in {"x1"} |->
                        Branch([y \in {"y1"} |-> Leaf([v \in {"z1"} |-> 10])],
                               Leaf([v \in {"z2"} |-> 10]))],
                    Leaf([v \in {"z2"} |-> 10])))
     >>]

TestNetworks == {ToyNetwork, ChainNetwork}

NodeNames(net) ==
    {net.NodesInSamplingOrder[i].Name : i \in DOMAIN net.NodesInSamplingOrder}

NodesByName(net) ==
    [nm \in NodeNames(net) |->
        CHOOSE n \in Range(net.NodesInSamplingOrder) : n.Name = nm]

-----------------------------------------------------------------------------
(* node methods *)

RECURSIVE walkParents(_, _, _, _)
walkParents(probabilities, parentNames, i, parentValues) ==
    IF i > Len(parentNames) THEN [panic |-> FALSE, table |-> probabilities]
    ELSE LET parentValue == Get(parentValues, parentNames[i]) IN
         IF probabilities.hasDeeper
         THEN IF parentValue \in DOMAIN probabilities.deeper
              THEN walkParents(probabilities.deeper[parentValue],
                               parentNames, i + 1, parentValues)
              ELSE IF probabilities.hasSkip
                   THEN walkParents(probabilities.skip,
                                    parentNames, i + 1, parentValues)
                   \* probabilities["skip"].(map[string]interface{}) on a
                   \* missing key: the type assertion panics
                   ELSE [panic |-> TRUE, table |-> probabilities]
         ELSE walkParents(probabilities, parentNames, i + 1, parentValues)

\* [panic, probs]: probs is the value -> weight map of the reached table
getProbabilitiesGivenKnownValues(n, parentValues) ==
    LET w == walkParents(n.ConditionalProbs, n.ParentNames, 1, parentValues)
    IN [panic |-> w.panic, probs |-> w.table.probs]

RECURSIVE scanCumulative_NotStrict(_, _, _, _, _)
\* a cumulative weight equal to the anchor is taken as exceeding it
scanCumulative_NotStrict(possibleValues, probabilities, anchor, i, cumulativeProbability) ==
    IF i > Len(possibleValues) THEN possibleValues[1]
    ELSE LET c == cumulativeProbability +
                  (IF possibleValues[i] \in DOMAIN probabilities
                   THEN probabilities[possibleValues[i]] ELSE 0)
         IN IF c >= anchor THEN possibleValues[i]
            ELSE scanCumulative_NotStrict(possibleValues, probabilities, anchor, i + 1, c)

RECURSIVE scanCumulative(_, _, _, _, _)
scanCumulative(possibleValues, probabilities, anchor, i, cumulativeProbability) ==
    IF i > Len(possibleValues) THEN possibleValues[1]
    ELSE LET c == cumulativeProbability +
                  (IF possibleValues[i] \in DOMAIN probabilities
                   THEN probabilities[possibleValues[i]] ELSE 0)
         IN IF c > anchor THEN possibleValues[i]
            ELSE scanCumulative(possibleValues, probabilities, anchor, i + 1, c)

\* defined for a non-empty possibleValues (possibleValues[0] panics otherwise)
sampleRandomValueFromPossibilities(possibleValues, probabilities, anchor) ==
    scanCumulative(possibleValues, probabilities, anchor, 1, 0)

\* the values node.sample can return: the keys are visited in any order
\* (range over a map) and the anchor is any draw; empty when the table
\* walk or possibleValues[0] panics
sampleOutcomes(n, parentValues) ==
    LET g == getProbabilitiesGivenKnownValues(n, parentValues) IN
    IF g.panic \/ DOMAIN g.probs = {} THEN {}
    ELSE {sampleRandomValueFromPossibilities(o, g.probs, u) :
             o \in Orders(DOMAIN g.probs), u \in Anchors}

\* the banned values are not filtered out
validValuesOf_KeepBanned(probabilities, possibilities, bannedValues) ==
    SelectSeq2(possibilities, 1, DOMAIN probabilities)

\* validValues of sampleAccordingToRestrictions, in the order of
\* valuePossibilities
validValuesOf(probabilities, possibilities, bannedValues) ==
    SelectSeq2(possibilities, 1, (DOMAIN probabilities) \ Range(bannedValues))

\* [ok, value] for one draw
sampleAccordingToRestrictions(n, parentValues, possibilities, bannedValues, anchor) ==
    LET probabilities == getProbabilitiesGivenKnownValues(n, parentValues).probs
        validValues == validValuesOf(probabilities, possibilities, bannedValues)
        validProbs == [v \in Range(validValues) |-> probabilities[v]]
    IN IF Len(validValues) = 0 THEN [ok |-> FALSE, value |-> ""]
       ELSE [ok |-> TRUE,
             value |-> sampleRandomValueFromPossibilities(validValues, validProbs, anchor)]

-----------------------------------------------------------------------------
(* bayesianNetwork.generateSample *)

RECURSIVE generateSampleFrom_Overwrite(_, _, _)
\* every node is drawn, whether the seed binds it or not
generateSampleFrom_Overwrite(net, smp, i) ==
    IF i > Len(net.NodesInSamplingOrder) THEN {smp}
    ELSE LET node == net.NodesInSamplingOrder[i] IN
         UNION {generateSampleFrom_Overwrite(net, Put(smp, node.Name, v), i + 1) :
                   v \in sampleOutcomes(node, smp)}

RECURSIVE generateSampleFrom(_, _, _)
\* the set of assignments the loop over NodesInSamplingOrder can end with
generateSampleFrom(net, smp, i) ==
    IF i > Len(net.NodesInSamplingOrder) THEN {smp}
    ELSE LET node == net.NodesInSamplingOrder[i] IN
         IF node.Name \in DOMAIN smp
         THEN generateSampleFrom(net, smp, i + 1)
         ELSE UNION {generateSampleFrom(net, Put(smp, node.Name, v), i + 1) :
                        v \in sampleOutcomes(node, smp)}

generateSample(net, seed) == generateSampleFrom(net, seed, 1)

-----------------------------------------------------------------------------
(* bayesianNetwork.recursivelyGenerateConsistentSampleWhenPossible, one    *)
(* activation record per depth; the record at position i runs at depth     *)
(* i - 1.  ret is "none" while the top record runs its own code, and       *)
(* "ok" / "fail" when the call above it has just returned.                 *)

Frame(banned, value) == [bannedValues |-> banned, sampleValue |-> value]

depth == Len(stack) - 1

Top == stack[Len(stack)]

Pop == SubSeq(stack, 1, Len(stack) - 1)

NodeAt(d) == bn.NodesInSamplingOrder[d + 1]

\* the restriction map is never consulted
possibilitiesOf_Unrestricted(node, restrictions) == node.PossibleValues

\* possibilities := valuePossibilities[node.Name], node.PossibleValues if nil
possibilitiesOf(node, restrictions) ==
    IF node.Name \in DOMAIN restrictions THEN restrictions[node.Name]
    ELSE node.PossibleValues

\* generateConsistentSampleWhenPossible: the call at depth 0 on a fresh map
StartSearch(net, restrictions) ==
    /\ bn' = net
    /\ valuePossibilities' = restrictions
    /\ sampleSoFar' = EmptyMap
    /\ stack' = <<Frame(<<>>, "")>>
    /\ ret' = "none"

\* depth == len(bn.NodesInSamplingOrder): return sampleSoFar, true
ReturnSolution ==
    /\ stack # <<>> /\ ret = "none"
    /\ depth = Len(bn.NodesInSamplingOrder)
    /\ stack' = Pop
    /\ ret' = "ok"
    /\ UNCHANGED <<bn, valuePossibilities, sampleSoFar>>

\* sampleAccordingToRestrictions found no valid value: break, return nil, false
NoLegalValue ==
    /\ stack # <<>> /\ ret = "none"
    /\ depth < Len(bn.NodesInSamplingOrder)
    /\ ~sampleAccordingToRestrictions(NodeAt(depth), sampleSoFar,
            possibilitiesOf(NodeAt(depth), valuePossibilities),
            Top.bannedValues, 0).ok
    /\ stack' = Pop
    /\ ret' = "fail"
    /\ UNCHANGED <<bn, valuePossibilities, sampleSoFar>>

\* a value was drawn: bind it and call depth + 1
BindAndRecurse ==
    /\ stack # <<>> /\ ret = "none"
    /\ depth < Len(bn.NodesInSamplingOrder)
    /\ \E anchor \in Anchors :
          LET node == NodeAt(depth)
              s == sampleAccordingToRestrictions(node, sampleSoFar,
                       possibilitiesOf(node, valuePossibilities),
                       Top.bannedValues, anchor)
          IN /\ s.ok
             /\ sampleSoFar' = Put(sampleSoFar, node.Name, s.value)
             /\ stack' = Pop \o <<Frame(Top.bannedValues, s.value), Frame(<<>>, "")>>
    /\ ret' = "none"
    /\ UNCHANGED <<bn, valuePossibilities>>

\* the deeper call succeeded: return nextSample, true
PropagateSuccess ==
    /\ stack # <<>> /\ ret = "ok"
    /\ stack' = Pop
    /\ UNCHANGED <<bn, valuePossibilities, sampleSoFar, ret>>

\* the deeper call failed and the failure is passed on without another try
BanAndRetry_GiveUp ==
    /\ stack # <<>> /\ ret = "fail"
    /\ stack' = Pop
    /\ sampleSoFar' = Delete(sampleSoFar, NodeAt(depth).Name)
    /\ UNCHANGED <<bn, valuePossibilities, ret>>

\* the deeper call failed: ban the value, unbind the node, loop
BanAndRetry ==
    /\ stack # <<>> /\ ret = "fail"
    /\ stack' = Pop \o <<Frame(Append(Top.bannedValues, Top.sampleValue), "")>>
    /\ sampleSoFar' = Delete(sampleSoFar, NodeAt(depth).Name)
    /\ ret' = "none"
    /\ UNCHANGED <<bn, valuePossibilities>>

SearchStep ==
    \/ ReturnSolution
    \/ NoLegalValue
    \/ BindAndRecurse
    \/ PropagateSuccess
    \/ BanAndRetry

-----------------------------------------------------------------------------
(* utils.go: header name casing *)

LowerLetters == "abcdefghijklmnopqrstuvwxyz"

UpperLetters == "ABCDEFGHIJKLMNOPQRSTUVWXYZ"

\* unicode.ToLower and unicode.ToUpper on the ASCII letters
LowerOf ==
    [c \in {Char(UpperLetters, i) : i \in 1..26} |->
        Char(LowerLetters, CHOOSE i \in 1..26 : Char(UpperLetters, i) = c)]

UpperOf ==
    [c \in {Char(LowerLetters, i) : i \in 1..26} |->
        Char(UpperLetters, CHOOSE i \in 1..26 : Char(LowerLetters, i) = c)]

IsLetter(c) == c \in DOMAIN LowerOf \/ c \in DOMAIN UpperOf

ToLowerChar(c) == IF c \in DOMAIN LowerOf THEN LowerOf[c] ELSE c

ToUpperChar(c) == IF c \in DOMAIN UpperOf THEN UpperOf[c] ELSE c

RECURSIVE ToLowerFrom(_, _)
ToLowerFrom(s, i) ==
    IF i > Len(s) THEN "" ELSE ToLowerChar(Char(s, i)) \o ToLowerFrom(s, i + 1)

\* strings.ToLower
ToLower(s) == ToLowerFrom(s, 1)

RECURSIVE TitleFrom(_, _)
TitleFrom(s, i) ==
    IF i > Len(s) THEN ""
    ELSE (IF i = 1 \/ ~IsLetter(Char(s, i - 1))
          THEN ToUpperChar(Char(s, i))
          ELSE ToLowerChar(Char(s, i))) \o TitleFrom(s, i + 1)

\* cases.Title(language.Und).String(key): the first letter of every word in
\* upper case, the other letters in lower case
pascalizeKey(key) == TitleFrom(key, 1)

WellKnownHeaders ==
    {"user-agent", "accept-language", "accept-encoding", "accept",
     "content-type", "content-length", "connection", "host", "referer",
     "origin", "cache-control", "pragma", "upgrade-insecure-requests",
     "sec-fetch-mode", "sec-fetch-dest", "sec-fetch-site", "sec-fetch-user"}

\* every key is Title-Cased, the client hints too
pascalizedName_TitleAll(k) == pascalizeKey(k)

\* the key pascalizeHeaders stores k under
pascalizedName(k) ==
    IF ToLower(k) \in WellKnownHeaders THEN pascalizeKey(k) ELSE k

RECURSIVE pascalizeInto(_, _, _)
\* the maps the range loop can leave under the given names, nameOf[k] being
\* the name key k is stored under: a name is bound to the value of any key
\* of headers that is stored under it
pascalizeInto(headers, nameOf, names) ==
    IF names = {} THEN {EmptyMap}
    ELSE LET nm == CHOOSE n \in names : TRUE IN
         {Put(h, nm, headers[k]) :
             h \in pascalizeInto(headers, nameOf, names \ {nm}),
             k \in {x \in DOMAIN headers : nameOf[x] = nm}}

\* the maps pascalizeHeaders can return: when two keys of headers land on
\* one name, the one visited last wins, and the visiting order of a Go map
\* is arbitrary
pascalizeHeaders(headers) ==
    LET nameOf == [k \in DOMAIN headers |-> pascalizedName(k)] IN
    pascalizeInto(headers, nameOf, {nameOf[k] : k \in DOMAIN headers})

-----------------------------------------------------------------------------
(* Header generator: constants and data files *)

SupportedBrowsers == <<"chrome", "firefox", "safari", "edge">>

SupportedOS == <<"windows", "macos", "linux", "android", "ios">>

SupportedDevices == <<"desktop", "mobile">>

SupportedHTTP == <<"1", "2">>

missingValueToken == "*MISSING_VALUE*"

http1SecFetchAttributes ==
    [k \in {"Sec-Fetch-Mode", "Sec-Fetch-Dest", "Sec-Fetch-Site", "Sec-Fetch-User"} |->
        CASE k = "Sec-Fetch-Mode" -> "same-site"
          [] k = "Sec-Fetch-Dest" -> "navigate"
          [] k = "Sec-Fetch-Site" -> "?1"
          [] k = "Sec-Fetch-User" -> "document"]

http2SecFetchAttributes ==
    [k \in {"sec-fetch-mode", "sec-fetch-dest", "sec-fetch-site", "sec-fetch-user"} |->
        CASE k = "sec-fetch-mode" -> "same-site"
          [] k = "sec-fetch-dest" -> "navigate"
          [] k = "sec-fetch-site" -> "?1"
          [] k = "sec-fetch-user" -> "document"]

HeaderConstraints(specs, browsers, os, devices, locales, httpVersion, strict) ==
    [BrowserSpecs |-> specs, Browsers |-> browsers, OS |-> os,
     Devices |-> devices, Locales |-> locales, HTTPVersion |-> httpVersion,
     Strict |-> strict]

BrowserSpec(name, minVersion, maxVersion, httpVersion) ==
    [Name |-> name, MinVersion |-> minVersion, MaxVersion |-> maxVersion,
     HTTPVersion |-> httpVersion]

defaultHeaderOptions ==
    HeaderConstraints(<<>>, SupportedBrowsers, SupportedOS, SupportedDevices,
                      <<"en-US">>, "2", FALSE)

\* content of data_points/browser-helper-file.json
BrowserHelperFile ==
    <<"chrome/131.0.0.0|2", "chrome/70.0.1|1", "firefox/120.0|2",
      "firefox/85.0|1", "safari/17.4|2", "*MISSING_VALUE*">>

\* the *httpBrowser a string parses to; isNil stands for the nil pointer
\* and hasName = FALSE for a nil Name
httpBrowser(hasName, name, version, completeString, httpVersion) ==
    [isNil |-> FALSE, hasName |-> hasName, Name |-> name, Version |-> version,
     CompleteString |-> completeString, HTTPVersion |-> httpVersion]

NilBrowser ==
    [isNil |-> TRUE, hasName |-> FALSE, Name |-> "", Version |-> <<>>,
     CompleteString |-> "", HTTPVersion |-> ""]

prepareHttpBrowserObject(httpBrowserString) ==
    IF httpBrowserString = missingValueToken
    THEN httpBrowser(FALSE, "", <<>>, missingValueToken, "")
    ELSE LET parts == Split(httpBrowserString, "|") IN
         IF Len(parts) # 2 THEN NilBrowser
         ELSE LET browserParts == Split(parts[1], "/") IN
              IF Len(browserParts) # 2 THEN NilBrowser
              ELSE LET versionParts == Split(browserParts[2], ".") IN
                   httpBrowser(TRUE, browserParts[1],
                               [i \in 1..Len(versionParts) |-> atoi(versionParts[i])],
                               httpBrowserString, parts[2])

RECURSIVE loadUniqueBrowsersFrom(_, _)
loadUniqueBrowsersFrom(browserStrings, i) ==
    IF i > Len(browserStrings) THEN <<>>
    ELSE IF browserStrings[i] = missingValueToken
            \/ prepareHttpBrowserObject(browserStrings[i]).isNil
         THEN loadUniqueBrowsersFrom(browserStrings, i + 1)
         ELSE <<prepareHttpBrowserObject(browserStrings[i])>>
              \o loadUniqueBrowsersFrom(browserStrings, i + 1)

\* g.uniqueBrowsers after loadUniqueBrowsers
uniqueBrowsers == loadUniqueBrowsersFrom(BrowserHelperFile, 1)

-----------------------------------------------------------------------------
(* Header generator: merging and translating the constraints.  An error    *)
(* is its message; "" is the nil error.                                    *)

validateAgainstSupported(value, supported) ==
    IF Contains(supported, value) THEN ""
    ELSE "value '" \o value \o "' is not supported"

\* the unsupported values stay in the valid list
filterValidValues_KeepAll(values, supported) ==
    LET invalidValues == SelectSeq2(values, 1, Range(values) \ Range(supported))
    IN IF Len(values) = 0 THEN [valid |-> <<>>, err |-> ""]
       ELSE IF Len(invalidValues) > 0
            THEN [valid |-> values,
                  err |-> "the following values are not supported: "
                          \o FmtList(invalidValues)]
            ELSE [valid |-> values, err |-> ""]

\* [valid, err]
filterValidValues(values, supported) ==
    LET valid == SelectSeq2(values, 1, Range(supported))
        invalidValues == SelectSeq2(values, 1, Range(values) \ Range(supported))
    IN IF Len(values) = 0 THEN [valid |-> <<>>, err |-> ""]
       ELSE IF Len(invalidValues) > 0
            THEN [valid |-> valid,
                  err |-> "the following values are not supported: "
                          \o FmtList(invalidValues)]
            ELSE [valid |-> valid, err |-> ""]

\* the error of a list is kept only when no supported value remains in it
validateAndMerge_SilentDrop(userValues, supported, current) ==
    LET f == filterValidValues(userValues, supported) IN
    IF Len(userValues) = 0 THEN [value |-> current, errs |-> <<>>]
    ELSE [value |-> IF Len(f.valid) > 0 THEN f.valid ELSE current,
          errs |-> IF f.err # "" /\ Len(f.valid) = 0 THEN <<f.err>> ELSE <<>>]

\* the closure validateAndMerge of mergeOptions: [value, errs] where value
\* is what the merged field holds afterwards
validateAndMerge(userValues, supported, current) ==
    LET f == filterValidValues(userValues, supported) IN
    IF Len(userValues) = 0 THEN [value |-> current, errs |-> <<>>]
    ELSE [value |-> IF Len(f.valid) > 0 THEN f.valid ELSE current,
          errs |-> IF f.err # "" THEN <<f.err>> ELSE <<>>]

\* [merged, err]; g.options is defaultHeaderOptions
mergeOptions(userOptions) ==
    LET b == validateAndMerge(userOptions.Browsers, SupportedBrowsers,
                              defaultHeaderOptions.Browsers)
        o == validateAndMerge(userOptions.OS, SupportedOS, defaultHeaderOptions.OS)
        d == validateAndMerge(userOptions.Devices, SupportedDevices,
                              defaultHeaderOptions.Devices)
        locales == IF Len(userOptions.Locales) > 0
                   THEN IF Len(userOptions.Locales) > 10
                        THEN SubSeq(userOptions.Locales, 1, 10)
                        ELSE userOptions.Locales
                   ELSE defaultHeaderOptions.Locales
        herr == IF userOptions.HTTPVersion # ""
                THEN validateAgainstSupported(userOptions.HTTPVersion, SupportedHTTP)
                ELSE ""
        httpVersion == IF userOptions.HTTPVersion # "" /\ herr = ""
                       THEN userOptions.HTTPVersion
                       ELSE defaultHeaderOptions.HTTPVersion
        validationErrors == b.errs \o o.errs \o d.errs
                            \o (IF herr # "" THEN <<herr>> ELSE <<>>)
    IN [merged |-> HeaderConstraints(userOptions.BrowserSpecs, b.value, o.value,
                                      d.value, locales, httpVersion,
                                      userOptions.Strict),
        err |-> IF Len(validationErrors) > 0
                THEN "validation errors: " \o FmtList(validationErrors)
                ELSE ""]

RECURSIVE matchSpec(_, _, _)
\* the inner loop of getBrowserHTTPOptions over g.uniqueBrowsers for one spec
matchSpec(browser, checkVersions, i) ==
    IF i > Len(uniqueBrowsers) THEN <<>>
    ELSE LET uniqueBrowser == uniqueBrowsers[i]
             rest == matchSpec(browser, checkVersions, i + 1)
         IN IF /\ uniqueBrowser.hasName /\ uniqueBrowser.Name = browser.Name
               /\ (browser.HTTPVersion = uniqueBrowser.HTTPVersion
                   \/ browser.HTTPVersion = "")
            THEN IF checkVersions /\ browser.MinVersion > 0
                    /\ uniqueBrowser.Version[1] < browser.MinVersion
                 THEN rest
                 ELSE IF checkVersions /\ browser.MaxVersion > 0
                         /\ uniqueBrowser.Version[1] > browser.MaxVersion
                      THEN rest
                      ELSE <<uniqueBrowser.CompleteString>> \o rest
            ELSE rest

RECURSIVE specOptionsFrom(_, _)
specOptionsFrom(specs, i) ==
    IF i > Len(specs) THEN <<>>
    ELSE matchSpec(specs[i], TRUE, 1) \o specOptionsFrom(specs, i + 1)

RECURSIVE nameOptionsFrom(_, _, _)
nameOptionsFrom(browsers, httpVersion, i) ==
    IF i > Len(browsers) THEN <<>>
    ELSE matchSpec(BrowserSpec(browsers[i], 0, 0, httpVersion), FALSE, 1)
         \o nameOptionsFrom(browsers, httpVersion, i + 1)

\* the lower version bound of a spec is not looked at
getBrowserHTTPOptions_IgnoreMinVersion(options) ==
    IF Len(options.BrowserSpecs) > 0
    THEN specOptionsFrom([i \in DOMAIN options.BrowserSpecs |->
                             [options.BrowserSpecs[i] EXCEPT !.MinVersion = 0]], 1)
    ELSE nameOptionsFrom(options.Browsers, options.HTTPVersion, 1)

getBrowserHTTPOptions(options) ==
    IF Len(options.BrowserSpecs) > 0
    THEN specOptionsFrom(options.BrowserSpecs, 1)
    ELSE nameOptionsFrom(options.Browsers, options.HTTPVersion, 1)

\* map[string][]string: *BROWSER_HTTP always, the others when non-empty
getPossibleAttributeValues(options) ==
    [k \in {"*BROWSER_HTTP"}
           \cup (IF Len(options.OS) > 0 THEN {"*OPERATING_SYSTEM"} ELSE {})
           \cup (IF Len(options.Devices) > 0 THEN {"*DEVICE"} ELSE {}) |->
        CASE k = "*BROWSER_HTTP" -> getBrowserHTTPOptions(options)
          [] k = "*OPERATING_SYSTEM" -> options.OS
          [] k = "*DEVICE" -> options.Devices]

\* http1Values and http2Values of prepareConstraints hold the same three lists
httpValues(options) ==
    [k \in {"*BROWSER", "*OPERATING_SYSTEM", "*DEVICE"} |->
        CASE k = "*BROWSER" -> options.Browsers
          [] k = "*OPERATING_SYSTEM" -> options.OS
          [] k = "*DEVICE" -> options.Devices]

filterBrowserHTTP(value, http1Values, http2Values) ==
    LET parts == Split(value, "|") IN
    IF Len(parts) # 2 THEN FALSE
    ELSE LET browserParts == Split(parts[1], "/") IN
         IF Len(browserParts) # 2 THEN FALSE
         ELSE IF parts[2] = "1"
              THEN IF DOMAIN http1Values = {} THEN TRUE
                   ELSE Contains(http1Values["*BROWSER"], browserParts[1])
              ELSE IF DOMAIN http2Values = {} THEN TRUE
                   ELSE Contains(http2Values["*BROWSER"], browserParts[1])

filterOtherValues(value, http1Values, http2Values, key) ==
    IF DOMAIN http1Values = {} /\ DOMAIN http2Values = {} THEN TRUE
    ELSE \/ key \in DOMAIN http1Values /\ Contains(http1Values[key], value)
         \/ key \in DOMAIN http2Values /\ Contains(http2Values[key], value)

RECURSIVE filterValues(_, _, _, _)
\* filteredValues of prepareConstraints for one key
filterValues(key, values, options, i) ==
    IF i > Len(values) THEN <<>>
    ELSE LET shouldInclude ==
                 IF key = "*BROWSER_HTTP"
                 THEN filterBrowserHTTP(values[i], httpValues(options), httpValues(options))
                 ELSE filterOtherValues(values[i], httpValues(options),
                                        httpValues(options), key)
         IN (IF shouldInclude THEN <<values[i]>> ELSE <<>>)
            \o filterValues(key, values, options, i + 1)

\* a key whose filtered list is empty is kept with the empty list
prepareConstraints_KeepsEmpty(options) ==
    LET possibleAttributeValues == getPossibleAttributeValues(options)
    IN [k \in DOMAIN possibleAttributeValues |->
           filterValues(k, possibleAttributeValues[k], options, 1)]

\* the restriction map for the input network; it never returns an error
prepareConstraints(options) ==
    LET possibleAttributeValues == getPossibleAttributeValues(options)
        kept == {k \in DOMAIN possibleAttributeValues :
                    Len(filterValues(k, possibleAttributeValues[k], options, 1)) > 0}
    IN [k \in kept |-> filterValues(k, possibleAttributeValues[k], options, 1)]

-----------------------------------------------------------------------------
(* Header generator: from the header-network sample to the header map *)

\* only the internal keys are dropped, the missing-value token is copied
generateHeadersFromSample_KeepMissing(smp) ==
    [k \in {x \in DOMAIN smp : ~HasPrefix(x, "*")} |-> smp[k]]

generateHeadersFromSample(smp) ==
    LET keep == {k \in DOMAIN smp : ~HasPrefix(k, "*") /\ smp[k] # missingValueToken}
    IN [k \in keep |-> smp[k]]

\* fmt's %.1f of q = 1.0 - i * 0.1 for i in 0..9, q in tenths
FmtQ(tenths) == Char(Digits, (tenths \div 10) + 1) \o "." \o Char(Digits, (tenths % 10) + 1)

RECURSIVE acceptLanguageParts(_, _)
acceptLanguageParts(locales, i) ==
    IF i > Len(locales) \/ i - 1 >= 10 THEN <<>>
    ELSE <<locales[i] \o ";q=" \o FmtQ(10 - (i - 1))>>
         \o acceptLanguageParts(locales, i + 1)

\* the entries are joined by a comma alone
generateAcceptLanguageHeader_CommaOnly(locales) ==
    Join(acceptLanguageParts(locales, 1), ",")

generateAcceptLanguageHeader(locales) == Join(acceptLanguageParts(locales, 1), ", ")

\* the chrome threshold is one major version too low
shouldAddSecFetch_Chrome75(browser) ==
    IF browser.isNil \/ ~browser.hasName \/ Len(browser.Version) = 0 THEN FALSE
    ELSE CASE browser.Name = "chrome" -> browser.Version[1] >= 75
           [] browser.Name = "firefox" -> browser.Version[1] >= 90
           [] browser.Name = "edge" -> browser.Version[1] >= 79
           [] OTHER -> FALSE

shouldAddSecFetch(browser) ==
    IF browser.isNil \/ ~browser.hasName \/ Len(browser.Version) = 0 THEN FALSE
    ELSE CASE browser.Name = "chrome" -> browser.Version[1] >= 76
           [] browser.Name = "firefox" -> browser.Version[1] >= 90
           [] browser.Name = "edge" -> browser.Version[1] >= 79
           [] OTHER -> FALSE

\* map union where the entries of extra overwrite those of m
PutAll(m, extra) ==
    [k \in (DOMAIN m) \cup (DOMAIN extra) |->
        IF k \in DOMAIN extra THEN extra[k] ELSE m[k]]

\* the header map of GenerateHeaders before the final casing step
buildHeaders(constraints, smp) ==
    LET h0 == generateHeadersFromSample(smp)
        h1 == IF Len(constraints.Locales) > 0
              THEN Put(h0,
                       IF Get(smp, "*HTTP_VERSION") = "2"
                       THEN "accept-language" ELSE "Accept-Language",
                       generateAcceptLanguageHeader(constraints.Locales))
              ELSE h0
        browser == prepareHttpBrowserObject(Get(smp, "*BROWSER_HTTP"))
    IN IF ~browser.isNil /\ shouldAddSecFetch(browser)
       THEN IF browser.HTTPVersion = "2"
            THEN PutAll(h1, http2SecFetchAttributes)
            ELSE PutAll(h1, http1SecFetchAttributes)
       ELSE h1

-----------------------------------------------------------------------------
(* The networks the header generator loads.  The input network selects     *)
(* operating system, device and browser; the header network is seeded      *)
(* with that selection and adds the header fields.                         *)

InputNetwork ==
    [NodesInSamplingOrder |-> <<
        Node("*OPERATING_SYSTEM", <<>>, <<"windows", "macos", "android">>,
             Leaf([v \in {"windows", "macos", "android"} |->
                     CASE v = "windows" -> 5 [] v = "macos" -> 2 [] v = "android" -> 3])),
        Node("*DEVICE", <<"*OPERATING_SYSTEM">>, <<"desktop", "mobile">>,
             Branch([o \in {"android"} |-> Leaf([v \in {"mobile"} |-> 10])],
                    Leaf([v \in {"desktop"} |-> 10]))),
        Node("*BROWSER_HTTP", <<"*OPERATING_SYSTEM", "*DEVICE">>,
             <<"chrome/131.0.0.0|2", "chrome/70.0.1|1", "firefox/120.0|2",
               "firefox/85.0|1", "safari/17.4|2">>,
             BranchNoSkip([o \in {"windows", "macos", "android"} |->
                CASE o = "windows" ->
                        Leaf([v \in {"chrome/131.0.0.0|2", "chrome/70.0.1|1",
                                     "firefox/120.0|2", "firefox/85.0|1"} |->
                                CASE v = "chrome/131.0.0.0|2" -> 5
                                  [] v = "chrome/70.0.1|1" -> 2
                                  [] v = "firefox/120.0|2" -> 2
                                  [] v = "firefox/85.0|1" -> 1])
                  [] o = "macos" ->
                        Leaf([v \in {"safari/17.4|2", "chrome/131.0.0.0|2"} |->
                                IF v = "safari/17.4|2" THEN 6 ELSE 4])
                  [] o = "android" ->
                        Leaf([v \in {"chrome/131.0.0.0|2", "firefox/120.0|2"} |->
                                IF v = "chrome/131.0.0.0|2" THEN 7 ELSE 3])]))
     >>]

HeaderNetwork ==
    [NodesInSamplingOrder |-> <<
        Node("*BROWSER_HTTP", <<>>,
             <<"chrome/131.0.0.0|2", "chrome/70.0.1|1", "firefox/120.0|2",
               "firefox/85.0|1", "safari/17.4|2">>,
             Leaf([v \in {"chrome/131.0.0.0|2", "chrome/70.0.1|1", "firefox/120.0|2",
                          "firefox/85.0|1", "safari/17.4|2"} |-> 2])),
        Node("*HTTP_VERSION", <<"*BROWSER_HTTP">>, <<"1", "2">>,
             Branch([b \in {"chrome/70.0.1|1", "firefox/85.0|1"} |->
                        Leaf([v \in {"1"} |-> 10])],
                    Leaf([v \in {"2"} |-> 10]))),
        Node("user-agent", <<"*BROWSER_HTTP">>,
             <<"Mozilla/5.0 Chrome/131.0.0.0", "Mozilla/5.0 Firefox/120.0",
               "Mozilla/5.0 Safari/17.4", "*MISSING_VALUE*">>,
             Branch([b \in {"chrome/131.0.0.0|2", "firefox/120.0|2", "safari/17.4|2"} |->
                        CASE b = "chrome/131.0.0.0|2" ->
                                Leaf([v \in {"Mozilla/5.0 Chrome/131.0.0.0"} |-> 10])
                          [] b = "firefox/120.0|2" ->
                                Leaf([v \in {"Mozilla/5.0 Firefox/120.0"} |-> 10])
                          [] b = "safari/17.4|2" ->
                                Leaf([v \in {"Mozilla/5.0 Safari/17.4"} |-> 10])],
                    Leaf([v \in {"*MISSING_VALUE*"} |-> 10]))),
        Node("User-Agent", <<"*BROWSER_HTTP">>,
             <<"Mozilla/5.0 Chrome/70.0.1", "Mozilla/5.0 Firefox/85.0", "*MISSING_VALUE*">>,
             Branch([b \in {"chrome/70.0.1|1", "firefox/85.0|1"} |->
                        IF b = "chrome/70.0.1|1"
                        THEN Leaf([v \in {"Mozilla/5.0 Chrome/70.0.1"} |-> 10])
                        ELSE Leaf([v \in {"Mozilla/5.0 Firefox/85.0"} |-> 10])],
                    Leaf([v \in {"*MISSING_VALUE*"} |-> 10]))),
        Node("sec-ch-ua", <<"*BROWSER_HTTP">>,
             <<"\"Chromium\";v=\"131\"", "\"Google Chrome\";v=\"131\"", "*MISSING_VALUE*">>,
             Branch([b \in {"chrome/131.0.0.0|2"} |->
                        Leaf([v \in {"\"Chromium\";v=\"131\"", "\"Google Chrome\";v=\"131\""} |->
                                5])],
                    Leaf([v \in {"*MISSING_VALUE*"} |-> 10])))
     >>]

-----------------------------------------------------------------------------
(* HeaderGenerator.GenerateHeaders.  One activation record per nested      *)
(* call: options is the argument, constraints the merged record, pc the    *)
(* position ("enter", "sampling", and "awaitHTTP2" / "awaitRelaxed" while  *)
(* the recursive call the record made is running).                         *)

Call(options, constraints, at) ==
    [options |-> options, constraints |-> constraints, pc |-> at]

TopCall == calls[Len(calls)]

PopCall == SubSeq(calls, 1, Len(calls) - 1)

NoReturn == [state |-> "none", isNil |-> TRUE, headers |-> EmptyMap, err |-> ""]

\* return nil, err
ReturnError(err) == [state |-> "returned", isNil |-> TRUE, headers |-> EmptyMap, err |-> err]

\* return headers, nil
ReturnHeaders(h) == [state |-> "returned", isNil |-> FALSE, headers |-> h, err |-> ""]

\* return nil, nil
ReturnNil == [state |-> "returned", isNil |-> TRUE, headers |-> EmptyMap, err |-> ""]

ErrNoHeaders ==
    "no headers based on this input can be generated. Please relax or change some of the requirements you specified"

\* mergeOptions returned an error: return nil, err
HdrRejectOptions ==
    /\ calls # <<>> /\ TopCall.pc = "enter"
    /\ mergeOptions(TopCall.options).err # ""
    /\ calls' = PopCall
    /\ hret' = ReturnError(mergeOptions(TopCall.options).err)
    /\ UNCHANGED <<bn, valuePossibilities, sampleSoFar, stack, ret, inputValues, sample>>

\* merge, translate, and call generateConsistentSampleWhenPossible on the
\* input network
HdrStartSampling ==
    /\ calls # <<>> /\ TopCall.pc = "enter"
    /\ mergeOptions(TopCall.options).err = ""
    /\ LET constraints == mergeOptions(TopCall.options).merged IN
         /\ calls' = PopCall \o <<Call(TopCall.options, constraints, "sampling")>>
         /\ StartSearch(InputNetwork, prepareConstraints(constraints))
    /\ hret' = NoReturn
    /\ UNCHANGED <<inputValues, sample>>

HdrSearchStep ==
    /\ calls # <<>> /\ TopCall.pc = "sampling"
    /\ SearchStep
    /\ UNCHANGED <<inputValues, sample, calls, hret>>

SearchFailed == calls # <<>> /\ TopCall.pc = "sampling" /\ stack = <<>> /\ ret = "fail"

SearchSucceeded == calls # <<>> /\ TopCall.pc = "sampling" /\ stack = <<>> /\ ret = "ok"

\* the HTTP/2 retry also drops the locales
HdrRetryHTTP2_DropsLocales ==
    /\ SearchFailed
    /\ TopCall.constraints.HTTPVersion = "1"
    /\ Len(calls) < MaxCalls
    /\ LET constraints == [TopCall.constraints EXCEPT !.HTTPVersion = "2",
                                                      !.Locales = <<>>] IN
         calls' = PopCall \o <<Call(TopCall.options, constraints, "awaitHTTP2"),
                               Call(constraints, constraints, "enter")>>
    /\ ret' = "none"
    /\ hret' = NoReturn
    /\ UNCHANGED <<bn, valuePossibilities, sampleSoFar, stack, inputValues, sample>>

\* !ok and constraints.HTTPVersion == "1": g.GenerateHeaders(constraints)
\* with HTTPVersion set to "2"
HdrRetryHTTP2 ==
    /\ SearchFailed
    /\ TopCall.constraints.HTTPVersion = "1"
    /\ Len(calls) < MaxCalls
    /\ LET constraints == [TopCall.constraints EXCEPT !.HTTPVersion = "2"] IN
         calls' = PopCall \o <<Call(TopCall.options, constraints, "awaitHTTP2"),
                               Call(constraints, constraints, "enter")>>
    /\ ret' = "none"
    /\ hret' = NoReturn
    /\ UNCHANGED <<bn, valuePossibilities, sampleSoFar, stack, inputValues, sample>>

\* !ok and constraints.Strict: return nil, error
HdrStrictError ==
    /\ SearchFailed
    /\ TopCall.constraints.HTTPVersion # "1"
    /\ TopCall.constraints.Strict
    /\ calls' = PopCall
    /\ hret' = ReturnError(ErrNoHeaders)
    /\ ret' = "none"
    /\ UNCHANGED <<bn, valuePossibilities, sampleSoFar, stack, inputValues, sample>>

\* !ok otherwise: g.GenerateHeaders(relaxedConstraints) with Locales and
\* Devices set to nil
HdrRelax ==
    /\ SearchFailed
    /\ TopCall.constraints.HTTPVersion # "1"
    /\ ~TopCall.constraints.Strict
    /\ Len(calls) < MaxCalls
    /\ LET relaxedConstraints ==
               [TopCall.constraints EXCEPT !.Locales = <<>>, !.Devices = <<>>] IN
         calls' = PopCall \o <<Call(TopCall.options, TopCall.constraints, "awaitRelaxed"),
                               Call(relaxedConstraints, relaxedConstraints, "enter")>>
    /\ ret' = "none"
    /\ hret' = NoReturn
    /\ UNCHANGED <<bn, valuePossibilities, sampleSoFar, stack, inputValues, sample>>

\* the recursive call returned: pass its error on, or return
\* pascalizeHeaders(headers), nil
HdrReturnFromRetry ==
    /\ calls # <<>> /\ TopCall.pc \in {"awaitHTTP2", "awaitRelaxed"}
    /\ hret.state = "returned"
    /\ calls' = PopCall
    /\ IF hret.err # "" THEN hret' = ReturnError(hret.err)
       ELSE \E h \in pascalizeHeaders(hret.headers) : hret' = ReturnHeaders(h)
    /\ UNCHANGED <<bn, valuePossibilities, sampleSoFar, stack, ret, inputValues, sample>>

\* generateSample draws into the map it was handed instead of a copy: the
\* caller's inputSample holds the whole sample afterwards
HdrGenerate_SampleInPlace ==
    /\ SearchSucceeded
    /\ \E smp \in generateSample(HeaderNetwork, sampleSoFar) :
          /\ sample' = smp
          /\ inputValues' = smp
          /\ IF TopCall.constraints.HTTPVersion = "2"
             THEN \E h \in pascalizeHeaders(buildHeaders(TopCall.constraints, smp)) :
                     hret' = ReturnHeaders(h)
             ELSE hret' = ReturnNil
    /\ calls' = PopCall
    /\ ret' = "none"
    /\ UNCHANGED <<bn, valuePossibilities, sampleSoFar, stack>>

\* ok: sample the header network from inputSample, build the headers and
\* return them pascalized when constraints.HTTPVersion == "2", nil, nil
\* otherwise
HdrGenerate ==
    /\ SearchSucceeded
    /\ inputValues' = sampleSoFar
    /\ \E smp \in generateSample(HeaderNetwork, sampleSoFar) :
          /\ sample' = smp
          /\ IF TopCall.constraints.HTTPVersion = "2"
             THEN \E h \in pascalizeHeaders(buildHeaders(TopCall.constraints, smp)) :
                     hret' = ReturnHeaders(h)
             ELSE hret' = ReturnNil
    /\ calls' = PopCall
    /\ ret' = "none"
    /\ UNCHANGED <<bn, valuePossibilities, sampleSoFar, stack>>

\* FingerprintGenerator.Generate on an error of GenerateHeaders: the error
\* it returns wraps that error
wrapHeadersError(err) == "failed to generate headers: " \o err

-----------------------------------------------------------------------------
(* Calls of GenerateHeaders by a user of the package *)

BrowsersInputs ==
    {<<>>, <<"chrome">>, <<"firefox">>, <<"safari">>, <<"netscape">>,
     <<"firefox", "netscape">>}

OSInputs == {<<>>, <<"windows">>, <<"android">>, <<"beos">>}

DevicesInputs == {<<>>, <<"mobile">>, <<"watch", "desktop">>}

LocalesInputs == {<<>>, <<"fr-FR", "de-DE">>}

HTTPVersionInputs == {"", "1", "2", "3"}

BrowserSpecsInputs ==
    {<<>>,
     <<BrowserSpec("firefox", 0, 0, "")>>,
     <<BrowserSpec("chrome", 100, 131, "")>>,
     <<BrowserSpec("chrome", 0, 80, "1"), BrowserSpec("safari", 17, 0, "")>>,
     <<BrowserSpec("opera", 0, 0, "")>>}

UserOptions ==
    {HeaderConstraints(sp, b, o, d, l, h, st) :
        sp \in BrowserSpecsInputs, b \in BrowsersInputs, o \in OSInputs,
        d \in DevicesInputs, l \in LocalesInputs, h \in HTTPVersionInputs,
        st \in BOOLEAN}

CallGenerateHeaders ==
    /\ pc = "idle"
    /\ \E options \in UserOptions :
          /\ callerOptions' = options
          /\ calls' = <<Call(options, options, "enter")>>
    /\ pc' = "headers"
    /\ hret' = NoReturn
    /\ UNCHANGED <<bn, valuePossibilities, sampleSoFar, stack, ret, inputValues, sample,
                   fnVars, fpVars>>

HdrStep ==
    /\ pc = "headers"
    /\ \/ HdrRejectOptions
       \/ HdrStartSampling
       \/ HdrSearchStep
       \/ HdrRetryHTTP2
       \/ HdrStrictError
       \/ HdrRelax
       \/ HdrReturnFromRetry
       \/ HdrGenerate
    /\ pc' = IF calls' = <<>> THEN "done" ELSE "headers"
    /\ UNCHANGED <<callerOptions, fnVars, fpVars>>

HdrInit ==
    /\ bn = InputNetwork
    /\ valuePossibilities = EmptyMap
    /\ sampleSoFar = EmptyMap
    /\ stack = <<>>
    /\ ret = "none"
    /\ inputValues = EmptyMap
    /\ sample = EmptyMap
    /\ pc = "idle"
    /\ callerOptions = defaultHeaderOptions
    /\ calls = <<>>
    /\ hret = NoReturn
    /\ NoFn
    /\ NoGenerator

HdrNext == CallGenerateHeaders \/ HdrStep

HdrSpec == HdrInit /\ [][HdrNext]_vars

-----------------------------------------------------------------------------
(* Direct calls of the network's two sampling entry points *)

\* restriction maps handed to the search: any subset of the nodes, each
\* with a list over the node's values and one value foreign to it
RestrictionValues(node) == Range(node.PossibleValues) \cup {"invalid"}

RECURSIVE RestrictionMapsFrom(_, _)
RestrictionMapsFrom(net, i) ==
    IF i > Len(net.NodesInSamplingOrder) THEN {EmptyMap}
    ELSE LET rest == RestrictionMapsFrom(net, i + 1)
             node == net.NodesInSamplingOrder[i]
         IN rest \cup {Put(r, node.Name, l) :
                          r \in rest,
                          l \in SeqsUpTo(RestrictionValues(node), MaxListLen)}

RestrictionMaps(net) == RestrictionMapsFrom(net, 1)

\* seeds handed to generateSample: any subset of the nodes bound
RECURSIVE SeedMapsFrom(_, _)
SeedMapsFrom(net, i) ==
    IF i > Len(net.NodesInSamplingOrder) THEN {EmptyMap}
    ELSE LET rest == SeedMapsFrom(net, i + 1)
             node == net.NodesInSamplingOrder[i]
         IN rest \cup {Put(m, node.Name, v) :
                          m \in rest, v \in RestrictionValues(node)}

SeedMaps(net) == SeedMapsFrom(net, 1)

CallRestricted ==
    /\ pc = "idle"
    /\ \E restrictions \in RestrictionMaps(bn) : StartSearch(bn, restrictions)
    /\ pc' = "search"
    /\ UNCHANGED <<inputValues, sample, callerOptions, calls, hret, fnVars, fpVars>>

NetSearchStep ==
    /\ pc = "search"
    /\ SearchStep
    /\ pc' = IF stack' = <<>> THEN "searched" ELSE "search"
    /\ UNCHANGED <<inputValues, sample, callerOptions, calls, hret, fnVars, fpVars>>

CallGenerateSample ==
    /\ pc = "idle"
    /\ \E seed \in SeedMaps(bn) :
          /\ inputValues' = seed
          /\ sample' \in generateSample(bn, seed)
    /\ pc' = "sampled"
    /\ UNCHANGED <<bn, valuePossibilities, sampleSoFar, stack, ret,
                   callerOptions, calls, hret, fnVars, fpVars>>

NetInit ==
    /\ bn \in TestNetworks
    /\ valuePossibilities = EmptyMap
    /\ sampleSoFar = EmptyMap
    /\ stack = <<>>
    /\ ret = "none"
    /\ inputValues = EmptyMap
    /\ sample = EmptyMap
    /\ pc = "idle"
    /\ callerOptions = defaultHeaderOptions
    /\ calls = <<>>
    /\ hret = NoReturn
    /\ NoFn
    /\ NoGenerator

NetNext == CallRestricted \/ NetSearchStep \/ CallGenerateSample

NetSpec == NetInit /\ [][NetNext]_vars

-----------------------------------------------------------------------------
(* Properties of the restricted search and of generateSample (NetSpec) *)

\* the restricted search has returned to its caller
SearchReturned == stack = <<>> /\ ret # "none"

Nodes(net) == Range(net.NodesInSamplingOrder)

\* C1: every assignment the restricted search returns with success takes,
\* for every key of the restriction map, a value of that key's list.
C1_RestrictionsRespected ==
    (SearchReturned /\ ret = "ok") =>
        \A k \in DOMAIN valuePossibilities :
            k \in DOMAIN sampleSoFar /\ Contains(valuePossibilities[k], sampleSoFar[k])

\* the toy network restricted to A in [a1], B in [b1, b2] has returned
C1_Witness ==
    /\ pc = "searched" /\ ret = "ok"
    /\ bn = ToyNetwork
    /\ DOMAIN valuePossibilities = {"A", "B"}
    /\ valuePossibilities["A"] = <<"a1">>
    /\ valuePossibilities["B"] = <<"b1", "b2">>
    /\ sampleSoFar["A"] = "a1"

\* the allowed set of a node under a restriction map
AllowedSet(n, restrictions) ==
    IF n.Name \in DOMAIN restrictions THEN Range(restrictions[n.Name])
    ELSE Range(n.PossibleValues)

\* every value an assignment could take in the model
ValueUniverse(net) == UNION {Range(n.PossibleValues) : n \in Nodes(net)} \cup {"invalid"}

\* the complete assignments in which every node takes an allowed value that
\* is a key of its leaf distribution given its parents
ConsistentAssignments(net, restrictions) ==
    {sigma \in [NodeNames(net) -> ValueUniverse(net)] :
        \A n \in Nodes(net) :
            /\ sigma[n.Name] \in AllowedSet(n, restrictions)
            /\ sigma[n.Name] \in DOMAIN getProbabilitiesGivenKnownValues(n, sigma).probs}

\* C2: the restricted search fails exactly when no consistent complete
\* assignment exists, and what it returns on success is one of them.
C2_SearchComplete ==
    SearchReturned =>
        /\ (ret = "fail") <=> (ConsistentAssignments(bn, valuePossibilities) = {})
        /\ (ret = "ok") => sampleSoFar \in ConsistentAssignments(bn, valuePossibilities)

\* the chain network restricted to Z in [z2]: X = x1 is locally legal but
\* strands Z, and the search has returned the assignment through X = x2
C2_Witness ==
    /\ pc = "searched" /\ ret = "ok"
    /\ bn = ChainNetwork
    /\ DOMAIN valuePossibilities = {"Z"}
    /\ valuePossibilities["Z"] = <<"z2">>
    /\ "x1" \in DOMAIN getProbabilitiesGivenKnownValues(
                   ChainNetwork.NodesInSamplingOrder[1], EmptyMap).probs
    /\ sampleSoFar["X"] = "x2" /\ sampleSoFar["Z"] = "z2"

\* C3 as stated: every node is bound to one of its possible values in every
\* assignment generateSample or a successful restricted search returns.
C3_AllValuesPossible ==
    /\ pc = "sampled" =>
          \A n \in Nodes(bn) :
              n.Name \in DOMAIN sample /\ Contains(n.PossibleValues, sample[n.Name])
    /\ (pc = "searched" /\ ret = "ok") =>
          \A n \in Nodes(bn) :
              n.Name \in DOMAIN sampleSoFar /\ Contains(n.PossibleValues, sampleSoFar[n.Name])

\* C3 amended: every node is bound; a node the seed does not bind (every
\* node, for the restricted search) holds one of its possible values and a
\* node the seed binds holds the seed's value.
C3_DrawnValuesPossible ==
    /\ pc = "sampled" =>
          \A n \in Nodes(bn) :
              /\ n.Name \in DOMAIN sample
              /\ n.Name \notin DOMAIN inputValues => Contains(n.PossibleValues, sample[n.Name])
              /\ n.Name \in DOMAIN inputValues => sample[n.Name] = inputValues[n.Name]
    /\ (pc = "searched" /\ ret = "ok") =>
          \A n \in Nodes(bn) :
              n.Name \in DOMAIN sampleSoFar /\ Contains(n.PossibleValues, sampleSoFar[n.Name])

\* generateSample was seeded with A only and has drawn B
C3_Witness ==
    /\ pc = "sampled"
    /\ bn = ToyNetwork
    /\ DOMAIN inputValues = {"A"} /\ inputValues["A"] = "a2"
    /\ sample["A"] = "a2" /\ sample["B"] = "b2"

IsPrefix(s, t) == Len(s) <= Len(t) /\ SubSeq(t, 1, Len(s)) = s

NoDuplicates(s) == \A i, j \in DOMAIN s : s[i] = s[j] => i = j

\* one step of the search seen from the activation record at position i
C4_Iteration(i) ==
    LET allowed == Range(possibilitiesOf(bn'.NodesInSamplingOrder[i], valuePossibilities'))
    IN /\ i <= Len(stack) => IsPrefix(stack[i].bannedValues, stack'[i].bannedValues)
       /\ NoDuplicates(stack'[i].bannedValues)
       /\ Range(stack'[i].bannedValues) \subseteq allowed
       /\ Len(stack'[i].bannedValues) <= Cardinality(allowed)
       /\ (i < Len(stack') \/ ret' # "none") =>
              ~Contains(stack'[i].bannedValues, stack'[i].sampleValue)

\* C4: at every depth the banned list only grows, never holds a value
\* twice, never holds the value being tried, and stays within the node's
\* allowed values, so the iterations at a depth are bounded by their number.
C4_BannedGrowsBounded ==
    [][\A i \in 1..Len(stack') :
          i <= Len(bn'.NodesInSamplingOrder) => C4_Iteration(i)]_vars

\* both values of the first node have been tried and banned at depth 0
C4_Witness ==
    /\ pc = "search"
    /\ Len(stack) = 1 /\ ret = "none"
    /\ Len(stack[1].bannedValues) = 2
    /\ stack[1].bannedValues[1] # stack[1].bannedValues[2]

-----------------------------------------------------------------------------
(* Properties of GenerateHeaders (HdrSpec) *)

\* the outermost GenerateHeaders call has returned
HeadersReturned == pc = "done" /\ hret.state = "returned"

\* C5: a call reached through the relaxation step that still finds no
\* assignment returns the infeasibility error, it does not relax again.
C5_RelaxedRetryReturns ==
    \A i \in 2..Len(calls) :
        calls[i - 1].pc = "awaitRelaxed" => calls[i].pc # "awaitRelaxed"

\* C6: a call with Strict = true whose restricted sampling failed never
\* receives headers from a retry with changed constraints.
C6_StrictNeverFallsBack ==
    \A i \in 1..Len(calls) :
        calls[i].constraints.Strict =>
            ~(/\ calls[i].pc \in {"awaitHTTP2", "awaitRelaxed"}
              /\ i = Len(calls)
              /\ hret.state = "returned" /\ hret.err = "")

\* C7: a return without error carries a non-empty header map, with
\* User-Agent when the header sample has a user agent.
C7_NoErrorMeansHeaders ==
    (HeadersReturned /\ hret.err = "") =>
        /\ ~hret.isNil
        /\ DOMAIN hret.headers # {}
        /\ (\E k \in DOMAIN sample :
               ToLower(k) = "user-agent" /\ sample[k] # missingValueToken)
           => "User-Agent" \in DOMAIN hret.headers

\* C8: no returned header map, at any nesting level, has a key starting
\* with * or a value equal to the missing-value token.
C8_NoInternalKeysOrMissingValues ==
    (hret.state = "returned" /\ ~hret.isNil) =>
        \A k \in DOMAIN hret.headers :
            ~HasPrefix(k, "*") /\ hret.headers[k] # missingValueToken

\* headers were returned although the header sample holds internal keys and
\* a missing value
C8_Witness ==
    /\ HeadersReturned /\ ~hret.isNil
    /\ "*BROWSER_HTTP" \in DOMAIN sample
    /\ "sec-ch-ua" \in DOMAIN sample /\ sample["sec-ch-ua"] = missingValueToken
    /\ "User-Agent" \in DOMAIN hret.headers

\* some value of the caller's options is outside the supported lists
HasUnsupported(options) ==
    \/ \E i \in DOMAIN options.Browsers : ~Contains(SupportedBrowsers, options.Browsers[i])
    \/ \E i \in DOMAIN options.OS : ~Contains(SupportedOS, options.OS[i])
    \/ \E i \in DOMAIN options.Devices : ~Contains(SupportedDevices, options.Devices[i])
    \/ options.HTTPVersion \notin {"", "1", "2"}

\* C9: options with an unsupported value are answered with an error that
\* mentions "not supported" and with no headers, no sampling is started.
C9_UnsupportedValueRejected ==
    (pc # "idle" /\ HasUnsupported(callerOptions)) =>
        /\ stack = <<>> /\ ret = "none"
        /\ sampleSoFar = EmptyMap /\ sample = EmptyMap
        /\ Len(calls) <= 1
        /\ \A i \in 1..Len(calls) : calls[i].pc = "enter"
        /\ pc = "done" =>
              /\ hret.state = "returned" /\ hret.isNil
              /\ ContainsStr(hret.err, "not supported")
              /\ ContainsStr(wrapHeadersError(hret.err), "not supported")

\* a list mixing a supported and an unsupported browser was rejected
C9_Witness ==
    /\ pc = "done"
    /\ callerOptions.Browsers = <<"firefox", "netscape">>
    /\ callerOptions.HTTPVersion = "2"
    /\ hret.err # ""

\* the unique-browser strings a list of browser specs selects
SpecMatches(specs) ==
    {uniqueBrowsers[j].CompleteString : j \in
        {j \in DOMAIN uniqueBrowsers :
            \E i \in DOMAIN specs :
                /\ uniqueBrowsers[j].Name = specs[i].Name
                /\ specs[i].HTTPVersion \in {"", uniqueBrowsers[j].HTTPVersion}
                /\ (specs[i].MinVersion = 0
                    \/ specs[i].MinVersion <= uniqueBrowsers[j].Version[1])
                /\ (specs[i].MaxVersion = 0
                    \/ specs[i].MaxVersion >= uniqueBrowsers[j].Version[1])}}

\* C10: with browser specs that select some record, the *BROWSER_HTTP
\* restriction handed to the input network is the selected set, whatever
\* the browsers list and the HTTP version are.
C10_SpecsSupersedeBrowsers ==
    (/\ Len(calls) = 1 /\ calls[1].pc = "sampling"
     /\ Len(callerOptions.BrowserSpecs) > 0
     /\ SpecMatches(callerOptions.BrowserSpecs) # {}) =>
        /\ "*BROWSER_HTTP" \in DOMAIN valuePossibilities
        /\ Range(valuePossibilities["*BROWSER_HTTP"]) = SpecMatches(callerOptions.BrowserSpecs)

-----------------------------------------------------------------------------
(* getBrowserHTTPOptions called on its own, for browser specifications     *)
(* over every name, HTTP version and version bound around the majors of    *)
(* the unique-browser records                                              *)

\* bounds a caller may put in MinVersion and MaxVersion (Go int)
VersionBounds == {-1, 0, 17, 18, 70, 71, 120, 131, 132}

SpecNames == {"chrome", "firefox", "safari", "opera"}

SpecHTTPVersions == {"", "1", "2"}

AnySpec ==
    {BrowserSpec(n, lo, hi, h) :
        n \in SpecNames, lo \in VersionBounds, hi \in VersionBounds,
        h \in SpecHTTPVersions}

\* a second spec some calls append to the first
SecondSpecs == {BrowserSpec("safari", 0, 0, ""), BrowserSpec("firefox", 100, 0, "2")}

CallGetBrowserHTTPOptions ==
    /\ pc = "idle"
    /\ \E first \in AnySpec, more \in {<<>>} \cup {<<x>> : x \in SecondSpecs} :
          LET options == [defaultHeaderOptions EXCEPT !.BrowserSpecs = <<first>> \o more]
          IN /\ fnArg' = options
             /\ fnRes' = getBrowserHTTPOptions(options)
    /\ pc' = "called"
    /\ UNCHANGED <<bn, valuePossibilities, sampleSoFar, stack, ret, inputValues, sample,
                   hdrVars, fpVars>>

BrowserSpecInit ==
    /\ bn = InputNetwork
    /\ valuePossibilities = EmptyMap
    /\ sampleSoFar = EmptyMap
    /\ stack = <<>>
    /\ ret = "none"
    /\ inputValues = EmptyMap
    /\ sample = EmptyMap
    /\ pc = "idle"
    /\ callerOptions = defaultHeaderOptions
    /\ calls = <<>>
    /\ hret = NoReturn
    /\ NoFn
    /\ NoGenerator

BrowserSpecNext == CallGetBrowserHTTPOptions

BrowserSpecSpec == BrowserSpecInit /\ [][BrowserSpecNext]_vars

\* the major version of a record of the unique-browser table
Major(record) == record.Version[1]

\* the records a spec selects according to the documented condition
DocumentedMatches(spec) ==
    {r.CompleteString : r \in {x \in Range(uniqueBrowsers) :
        /\ x.hasName /\ x.Name = spec.Name
        /\ (spec.HTTPVersion = "" \/ spec.HTTPVersion = x.HTTPVersion)
        /\ (spec.MinVersion <= Major(x) \/ spec.MinVersion = 0)
        /\ (spec.MaxVersion >= Major(x) \/ spec.MaxVersion = 0)}}

\* the same with a bound that is zero or negative counting as no bound
UnboundedWhenNotPositiveMatches(spec) ==
    {r.CompleteString : r \in {x \in Range(uniqueBrowsers) :
        /\ x.hasName /\ x.Name = spec.Name
        /\ (spec.HTTPVersion = "" \/ spec.HTTPVersion = x.HTTPVersion)
        /\ (spec.MinVersion <= Major(x) \/ spec.MinVersion <= 0)
        /\ (spec.MaxVersion >= Major(x) \/ spec.MaxVersion <= 0)}}

\* C11 as stated: with browserSpecs, a unique-browser record is a candidate
\* exactly when name and HTTP version match and each version bound is
\* either 0 or satisfied by the record's major version.
C11_SpecMatchingAsDocumented ==
    pc = "called" =>
        Range(fnRes) = UNION {DocumentedMatches(fnArg.BrowserSpecs[i]) :
                                 i \in DOMAIN fnArg.BrowserSpecs}

\* C11 amended: a unique-browser record is a candidate exactly when name
\* and HTTP version match and each version bound is either zero or
\* negative, or satisfied by the record's major version.
C11_SpecMatching ==
    pc = "called" =>
        Range(fnRes) = UNION {UnboundedWhenNotPositiveMatches(fnArg.BrowserSpecs[i]) :
                                 i \in DOMAIN fnArg.BrowserSpecs}

\* a spec with a lower bound and a negative upper bound keeps one record of
\* its browser and drops another
C11_Witness ==
    /\ pc = "called"
    /\ Len(fnArg.BrowserSpecs) = 1
    /\ fnArg.BrowserSpecs[1].Name = "chrome"
    /\ fnArg.BrowserSpecs[1].MinVersion = 71
    /\ fnArg.BrowserSpecs[1].MaxVersion = -1
    /\ fnRes = <<"chrome/131.0.0.0|2">>

-----------------------------------------------------------------------------
(* Browser selection without browserSpecs (HdrSpec) *)

\* the unique-browser strings of the requested browsers at the merged version
RequestedBrowserStrings(constraints) ==
    {r.CompleteString : r \in {x \in Range(uniqueBrowsers) :
        /\ x.hasName /\ Contains(constraints.Browsers, x.Name)
        /\ x.HTTPVersion = constraints.HTTPVersion}}

\* C12: without browserSpecs the *BROWSER_HTTP candidates are exactly the
\* unique-browser strings of the merged browsers at the merged HTTP
\* version, and every successfully sampled *BROWSER_HTTP is one of a
\* requested browser at that version.
C12_SampledBrowserRequested ==
    (calls # <<>> /\ TopCall.pc = "sampling" /\ TopCall.constraints.BrowserSpecs = <<>>) =>
        /\ Range(getBrowserHTTPOptions(TopCall.constraints))
               = RequestedBrowserStrings(TopCall.constraints)
        /\ SearchSucceeded =>
               LET browser == prepareHttpBrowserObject(sampleSoFar["*BROWSER_HTTP"]) IN
               /\ Contains(TopCall.constraints.Browsers, browser.Name)
               /\ browser.HTTPVersion = TopCall.constraints.HTTPVersion

-----------------------------------------------------------------------------
(* The restricted search and GenerateHeaders as whole calls: the set of    *)
(* values a call can return, over every draw of the random source.  The    *)
(* goroutines of the fingerprint generator below run them to completion    *)
(* on their own stacks.                                                    *)

RECURSIVE recursivelyGenerateConsistentSampleWhenPossible(_, _, _, _, _)
\* [ok, sample]; level is the depth argument and banned the bannedValues
\* the loop of this activation has collected so far
recursivelyGenerateConsistentSampleWhenPossible(net, smp, restrictions, level, banned) ==
    IF level = Len(net.NodesInSamplingOrder) THEN {[ok |-> TRUE, sample |-> smp]}
    ELSE LET node == net.NodesInSamplingOrder[level + 1]
             draws == {sampleAccordingToRestrictions(node, smp,
                           possibilitiesOf(node, restrictions), banned, anchor) :
                       anchor \in Anchors}
         IN UNION {IF ~d.ok THEN {[ok |-> FALSE, sample |-> EmptyMap]}
                   ELSE LET deeper == recursivelyGenerateConsistentSampleWhenPossible(
                                          net, Put(smp, node.Name, d.value),
                                          restrictions, level + 1, <<>>)
                        IN {r \in deeper : r.ok}
                           \cup (IF \E r \in deeper : ~r.ok
                                 THEN recursivelyGenerateConsistentSampleWhenPossible(
                                          net, smp, restrictions, level,
                                          Append(banned, d.value))
                                 ELSE {}) :
                   d \in draws}

generateConsistentSampleWhenPossible(net, restrictions) ==
    recursivelyGenerateConsistentSampleWhenPossible(net, EmptyMap, restrictions, 0, <<>>)

\* the goroutine's stack is exhausted by nested calls: the runtime aborts
\* the program and nothing is returned
StackOverflow == [state |-> "overflow", isNil |-> TRUE, headers |-> EmptyMap, err |-> ""]

\* what GenerateHeaders returns after its recursive call returned r
afterRetry(r) ==
    IF r.state = "overflow" THEN {r}
    ELSE IF r.err # "" THEN {ReturnError(r.err)}
    ELSE {ReturnHeaders(h) : h \in pascalizeHeaders(r.headers)}

\* what GenerateHeaders returns once the input network has been sampled
afterSampling(constraints, inputSample) ==
    IF constraints.HTTPVersion = "2"
    THEN UNION {{ReturnHeaders(h) : h \in pascalizeHeaders(buildHeaders(constraints, smp))} :
                   smp \in generateSample(HeaderNetwork, inputSample)}
    ELSE {ReturnNil}

RECURSIVE GenerateHeaders(_, _)
\* nesting is how many more nested calls the stack has room for
GenerateHeaders(options, nesting) ==
    LET m == mergeOptions(options)
        constraints == m.merged
        retry(c) == IF nesting = 0 THEN {StackOverflow}
                    ELSE UNION {afterRetry(r) : r \in GenerateHeaders(c, nesting - 1)}
    IN IF m.err # "" THEN {ReturnError(m.err)}
       ELSE UNION {IF r.ok THEN afterSampling(constraints, r.sample)
                   ELSE IF constraints.HTTPVersion = "1"
                        THEN retry([constraints EXCEPT !.HTTPVersion = "2"])
                   ELSE IF constraints.Strict THEN {ReturnError(ErrNoHeaders)}
                   ELSE retry([constraints EXCEPT !.Locales = <<>>, !.Devices = <<>>]) :
                   r \in generateConsistentSampleWhenPossible(
                             InputNetwork, prepareConstraints(constraints))}

-----------------------------------------------------------------------------
(* Strings and JSON texts used by transformFingerprint *)

WhiteSpace == {" ", "\t", "\n", "\r"}

RECURSIVE TrimLeft(_)
TrimLeft(str) ==
    IF Len(str) > 0 /\ Char(str, 1) \in WhiteSpace
    THEN TrimLeft(SubSeq(str, 2, Len(str))) ELSE str

RECURSIVE TrimRight(_)
TrimRight(str) ==
    IF Len(str) > 0 /\ Char(str, Len(str)) \in WhiteSpace
    THEN TrimRight(SubSeq(str, 1, Len(str) - 1)) ELSE str

\* strings.TrimSpace
TrimSpace(str) == TrimRight(TrimLeft(str))

\* strings.SplitN(str, sep, 2)[0]
FirstOfSplitN2(str, sep) == Split(str, sep)[1]

\* fmt.Sprintf(`["%s"]`, strings.Join(languages, `","`))
languagesText(languages) == "[\"" \o Join(languages, "\",\"") \o "\"]"

RECURSIVE skipSpace(_, _)
\* the first position from i on that holds no white space
skipSpace(str, i) ==
    IF i <= Len(str) /\ Char(str, i) \in WhiteSpace THEN skipSpace(str, i + 1) ELSE i

RECURSIVE closingQuote(_, _)
\* the position of the quote that ends the JSON string whose content
\* starts at i, 0 when there is none; a backslash escapes the next character
closingQuote(str, i) ==
    IF i > Len(str) THEN 0
    ELSE IF Char(str, i) = "\"" THEN i
    ELSE IF Char(str, i) = "\\" THEN closingQuote(str, i + 2)
    ELSE closingQuote(str, i + 1)

RECURSIVE unescape(_, _, _)
\* the content of a JSON string between positions i and j, with the
\* escapes of a quote and of a backslash decoded
unescape(str, i, j) ==
    IF i > j THEN ""
    ELSE IF Char(str, i) = "\\" /\ i < j
         THEN Char(str, i + 1) \o unescape(str, i + 2, j)
         ELSE Char(str, i) \o unescape(str, i + 1, j)

RECURSIVE stringElements(_, _)
\* the elements of a JSON array of strings from position i on, after the
\* opening bracket or a comma: [err, value]
stringElements(str, i) ==
    LET from == skipSpace(str, i) IN
    IF from > Len(str) \/ Char(str, from) # "\"" THEN [err |-> TRUE, value |-> <<>>]
    ELSE LET close == closingQuote(str, from + 1) IN
         IF close = 0 THEN [err |-> TRUE, value |-> <<>>]
         ELSE LET element == unescape(str, from + 1, close - 1)
                  next == skipSpace(str, close + 1)
              IN IF next > Len(str) THEN [err |-> TRUE, value |-> <<>>]
                 ELSE IF Char(str, next) = "]"
                      THEN [err |-> skipSpace(str, next + 1) <= Len(str),
                            value |-> <<element>>]
                 ELSE IF Char(str, next) = ","
                      THEN LET rest == stringElements(str, next + 1) IN
                           [err |-> rest.err, value |-> <<element>> \o rest.value]
                 ELSE [err |-> TRUE, value |-> <<>>]

\* json.Unmarshal([]byte(str), &languages) for languages []string:
\* [err, value]
unmarshalStrings(str) ==
    LET text == TrimSpace(str) IN
    IF text = "null" THEN [err |-> FALSE, value |-> <<>>]
    ELSE IF Len(text) = 0 \/ Char(text, 1) # "[" THEN [err |-> TRUE, value |-> <<>>]
    ELSE LET from == skipSpace(text, 2) IN
         IF from = Len(text) /\ Char(text, from) = "]" THEN [err |-> FALSE, value |-> <<>>]
         ELSE stringElements(text, 2)

\* json.Unmarshal into a struct fails on a text that is not a JSON object;
\* the object texts of the fingerprint network are brace-delimited and
\* well formed inside
unmarshalObjectFails(str) ==
    LET text == TrimSpace(str) IN
    ~(text = "null" \/ (Len(text) >= 2 /\ Char(text, 1) = "{" /\ Char(text, Len(text)) = "}"))

-----------------------------------------------------------------------------
(* FingerprintGenerator: one generator shared by the goroutines that call  *)
(* Generate on it.  An option is the field it writes and the value.        *)

\* the zero value of HeaderConstraints
ZeroHeaderConstraints == HeaderConstraints(<<>>, <<>>, <<>>, <<>>, <<>>, "", FALSE)

\* a nil *Screen
NilScreen == [isNil |-> TRUE, MinWidth |-> 0]

\* a FingerprintOption: the field its closure writes and the captured
\* value, in the component of the value's type
FingerprintOption(field, flag, screen, constraints) ==
    [field |-> field, flag |-> flag, screen |-> screen, constraints |-> constraints]

WithScreen(screen) == FingerprintOption("screen", FALSE, screen, ZeroHeaderConstraints)

WithStrict(strict) == FingerprintOption("strict", strict, NilScreen, ZeroHeaderConstraints)

WithMockWebRTC(mockWebRTC) ==
    FingerprintOption("mockWebRTC", mockWebRTC, NilScreen, ZeroHeaderConstraints)

WithSlim(slim) == FingerprintOption("slim", slim, NilScreen, ZeroHeaderConstraints)

WithHeaderConstraints(constraints) ==
    FingerprintOption("headerConstraints", FALSE, NilScreen, constraints)

\* opt(g): the closure of an option writes its field of the generator
applyOption(gen, opt) ==
    CASE opt.field = "screen" -> [gen EXCEPT !.screen = opt.screen]
      [] opt.field = "strict" -> [gen EXCEPT !.strict = opt.flag]
      [] opt.field = "mockWebRTC" -> [gen EXCEPT !.mockWebRTC = opt.flag]
      [] opt.field = "slim" -> [gen EXCEPT !.slim = opt.flag]
      [] opt.field = "headerConstraints" -> [gen EXCEPT !.headerConstraints = opt.constraints]

RECURSIVE applyOptions(_, _)
applyOptions(gen, opts) ==
    IF opts = <<>> THEN gen ELSE applyOptions(applyOption(gen, Head(opts)), Tail(opts))

\* the fields of a FingerprintGenerator that options can set
FingerprintGenerator(headerConstraints, screen, strict, mockWebRTC, slim) ==
    [headerConstraints |-> headerConstraints, screen |-> screen, strict |-> strict,
     mockWebRTC |-> mockWebRTC, slim |-> slim]

NewFingerprintGenerator(opts) ==
    applyOptions(FingerprintGenerator(ZeroHeaderConstraints, NilScreen, FALSE, FALSE, FALSE),
                 opts)

\* the fingerprint network: userAgent, then the attributes that depend on it
FingerprintNetwork ==
    [NodesInSamplingOrder |-> <<
        Node("userAgent", <<>>,
             <<"Mozilla/5.0 Chrome/131.0.0.0", "Mozilla/5.0 Firefox/120.0">>,
             Leaf([v \in {"Mozilla/5.0 Chrome/131.0.0.0", "Mozilla/5.0 Firefox/120.0"} |->
                     IF v = "Mozilla/5.0 Chrome/131.0.0.0" THEN 7 ELSE 3])),
        Node("screen", <<"userAgent">>,
             <<"*STRINGIFIED*{\"width\":1920}", "*STRINGIFIED*{\"width\":1366}">>,
             Branch([u \in {"Mozilla/5.0 Firefox/120.0"} |->
                        Leaf([v \in {"*STRINGIFIED*{\"width\":1366}"} |-> 10])],
                    Leaf([v \in {"*STRINGIFIED*{\"width\":1920}"} |-> 10]))),
        Node("languages", <<>>, <<"*STRINGIFIED*[\"en-GB\",\"en\"]">>,
             Leaf([v \in {"*STRINGIFIED*[\"en-GB\",\"en\"]"} |-> 10])),
        Node("videoCard", <<>>, <<"*MISSING_VALUE*">>,
             Leaf([v \in {"*MISSING_VALUE*"} |-> 10]))
     >>]

\* return nil, err
NoFingerprint(err) == [isNil |-> TRUE, err |-> err]

\* the first loop of transformFingerprint: missing values become "" and
\* the *STRINGIFIED* prefix is cut off
preprocess(raw) ==
    [k \in DOMAIN raw |->
        IF raw[k] = "*MISSING_VALUE*" THEN ""
        ELSE IF HasPrefix(raw[k], "*STRINGIFIED*")
             THEN SubSeq(raw[k], Len("*STRINGIFIED*") + 1, Len(raw[k]))
             ELSE raw[k]]

RECURSIVE languagesFrom(_, _)
\* languages of transformFingerprint from the comma-split Accept-Language
languagesFrom(locales, i) ==
    IF i > Len(locales) THEN <<>>
    ELSE <<TrimSpace(FirstOfSplitN2(locales[i], ";"))>> \o languagesFrom(locales, i + 1)

\* the attributes decoded into a struct when present and not ""
ObjectAttributes ==
    {"userAgentData", "extraProperties", "videoCard", "battery", "multimediaDevices",
     "pluginsData"}

\* the languages of the network are kept, Accept-Language is not looked at
transformFingerprint_KeepNetworkLanguages(raw0, headers, mockWebRTC, slim) ==
    LET raw == preprocess(raw0)
        languages == unmarshalStrings(Get(raw, "languages"))
    IN IF "screen" \notin DOMAIN raw \/ unmarshalObjectFails(raw["screen"]) \/ languages.err
       THEN NoFingerprint("failed to parse fingerprint")
       ELSE [isNil |-> FALSE, err |-> "",
             Screen |-> raw["screen"],
             Navigator |-> [UserAgent |-> Get(raw, "userAgent"),
                            Languages |-> languages.value,
                            Language |-> IF Len(languages.value) > 0
                                         THEN languages.value[1] ELSE ""],
             Headers |-> headers,
             MockWebRTC |-> mockWebRTC,
             Slim |-> slim]

transformFingerprint(raw0, headers, mockWebRTC, slim) ==
    LET raw1 == preprocess(raw0)
        acceptLanguage == Get(headers, "Accept-Language")
        raw == IF acceptLanguage # ""
               THEN Put(raw1, "languages",
                        languagesText(languagesFrom(Split(acceptLanguage, ","), 1)))
               ELSE raw1
        languages == unmarshalStrings(Get(raw, "languages"))
    IN IF "screen" \notin DOMAIN raw
       THEN NoFingerprint("missing screen data in fingerprint")
       ELSE IF unmarshalObjectFails(raw["screen"])
       THEN NoFingerprint("failed to parse screen data")
       ELSE IF \E k \in {"userAgentData", "extraProperties"} :
                  k \in DOMAIN raw /\ raw[k] # "" /\ unmarshalObjectFails(raw[k])
       THEN NoFingerprint("failed to parse navigator data")
       ELSE IF languages.err
       THEN NoFingerprint("failed to parse languages")
       ELSE IF \E k \in ObjectAttributes \ {"userAgentData", "extraProperties"} :
                  k \in DOMAIN raw /\ raw[k] # "" /\ unmarshalObjectFails(raw[k])
       THEN NoFingerprint("failed to parse attribute data")
       ELSE IF "fonts" \in DOMAIN raw /\ raw["fonts"] # ""
               /\ unmarshalStrings(raw["fonts"]).err
       THEN NoFingerprint("failed to parse fonts")
       ELSE [isNil |-> FALSE, err |-> "",
             Screen |-> raw["screen"],
             Navigator |-> [UserAgent |-> Get(raw, "userAgent"),
                            Languages |-> languages.value,
                            Language |-> IF Len(languages.value) > 0
                                         THEN languages.value[1] ELSE ""],
             Headers |-> headers,
             MockWebRTC |-> mockWebRTC,
             Slim |-> slim]

-----------------------------------------------------------------------------
(* FingerprintGenerator.Generate, run by two goroutines on one generator.  *)
(* A goroutine is at "idle" before its call, "applying" while the loop     *)
(* over opts runs, "sampling" once the headers are there, "transform"      *)
(* once it holds a raw fingerprint, "done" when Generate returned and      *)
(* "crashed" when the runtime aborted it.                                  *)

Goroutines == {1, 2}

NotCalled ==
    [pc |-> "idle", opts |-> <<>>, own |-> <<>>, headers |-> EmptyMap,
     restricted |-> "none", raw |-> EmptyMap, result |-> NoFingerprint("")]

\* header constraints a caller hands over with WithHeaderConstraints
LocaleConstraints == [ZeroHeaderConstraints EXCEPT !.Locales = <<"fr-FR", "de-DE">>]

SafariConstraints == [ZeroHeaderConstraints EXCEPT !.Browsers = <<"safari">>]

NetscapeConstraints == [ZeroHeaderConstraints EXCEPT !.Browsers = <<"netscape">>]

HTTP1Constraints == [ZeroHeaderConstraints EXCEPT !.HTTPVersion = "1"]

\* the options of NewFingerprintGenerator(opts...)
ConstructorOptions ==
    {<<>>,
     <<WithSlim(TRUE), WithMockWebRTC(TRUE)>>,
     <<WithHeaderConstraints(LocaleConstraints), WithStrict(TRUE)>>}

\* the overrides of Generate(opts...)
GenerateOptions ==
    {<<>>,
     <<WithSlim(TRUE)>>, <<WithSlim(FALSE)>>,
     <<WithMockWebRTC(TRUE)>>,
     <<WithStrict(TRUE)>>,
     <<WithScreen([isNil |-> FALSE, MinWidth |-> 800])>>,
     <<WithHeaderConstraints(LocaleConstraints)>>,
     <<WithHeaderConstraints(SafariConstraints)>>,
     <<WithHeaderConstraints(SafariConstraints), WithStrict(TRUE)>>,
     <<WithHeaderConstraints(NetscapeConstraints)>>,
     <<WithHeaderConstraints(HTTP1Constraints)>>}

\* every value the generator's headerConstraints can hold
ConstraintsInUse ==
    {ZeroHeaderConstraints, LocaleConstraints, SafariConstraints, NetscapeConstraints,
     HTTP1Constraints}

\* what GenerateHeaders can return for each of them, computed once
HeadersFor == [c \in ConstraintsInUse |-> GenerateHeaders(c, MaxCalls - 1)]

\* a goroutine calls g.Generate(opts...)
FpCallGenerate(t) ==
    /\ threads[t].pc = "idle"
    /\ \E opts \in GenerateOptions :
          threads' = [threads EXCEPT ![t] = [@ EXCEPT !.pc = "applying", !.opts = opts,
                                                      !.own = opts]]
    /\ UNCHANGED <<generator, built>>

\* for _, opt := range opts { opt(g) }: one option writes the generator
FpApplyOption(t) ==
    /\ threads[t].pc = "applying" /\ threads[t].opts # <<>>
    /\ generator' = applyOption(generator, Head(threads[t].opts))
    /\ threads' = [threads EXCEPT ![t].opts = Tail(@)]
    /\ UNCHANGED built

\* g.headerGenerator.GenerateHeaders(g.headerConstraints), the error
\* return and the look-up of User-Agent
FpGenerateHeaders(t) ==
    /\ threads[t].pc = "applying" /\ threads[t].opts = <<>>
    /\ \E r \in HeadersFor[generator.headerConstraints] :
          threads' = [threads EXCEPT ![t] =
              IF r.state = "overflow" THEN [@ EXCEPT !.pc = "crashed"]
              ELSE IF r.err # ""
                   THEN [@ EXCEPT !.pc = "done",
                                  !.result = NoFingerprint(wrapHeadersError(r.err))]
              ELSE IF Get(r.headers, "User-Agent") = ""
                   THEN [@ EXCEPT !.pc = "done",
                                  !.result = NoFingerprint(
                                      "failed to find User-Agent in generated headers")]
              ELSE [@ EXCEPT !.pc = "sampling", !.headers = r.headers]]
    /\ UNCHANGED <<generator, built>>

\* the strict error is returned although a fallback sample could be drawn
FpSampleFingerprint_StrictIgnored(t) ==
    /\ threads[t].pc = "sampling"
    /\ \E r \in generateConsistentSampleWhenPossible(FingerprintNetwork,
                   [k \in {"userAgent"} |-> <<threads[t].headers["User-Agent"]>>]) :
          IF r.ok
          THEN threads' = [threads EXCEPT ![t] = [@ EXCEPT !.pc = "transform",
                               !.restricted = "ok", !.raw = r.sample]]
          ELSE \E fallback \in generateSample(FingerprintNetwork, EmptyMap) :
                  threads' = [threads EXCEPT ![t] = [@ EXCEPT !.pc = "transform",
                                  !.restricted = "failed", !.raw = fallback]]
    /\ UNCHANGED <<generator, built>>

\* the restricted sampling of the fingerprint network, the strict error
\* and the fallback to generateSample(nil)
FpSampleFingerprint(t) ==
    /\ threads[t].pc = "sampling"
    /\ \E r \in generateConsistentSampleWhenPossible(FingerprintNetwork,
                   [k \in {"userAgent"} |-> <<threads[t].headers["User-Agent"]>>]) :
          IF r.ok
          THEN threads' = [threads EXCEPT ![t] = [@ EXCEPT !.pc = "transform",
                               !.restricted = "ok", !.raw = r.sample]]
          ELSE IF generator.strict
               THEN threads' = [threads EXCEPT ![t] = [@ EXCEPT !.pc = "done",
                                    !.restricted = "failedStrict",
                                    !.result = NoFingerprint(
                                        "could not generate fingerprint with given constraints")]]
               ELSE \E fallback \in generateSample(FingerprintNetwork, EmptyMap) :
                       threads' = [threads EXCEPT ![t] = [@ EXCEPT !.pc = "transform",
                                       !.restricted = "failed", !.raw = fallback]]
    /\ UNCHANGED <<generator, built>>

\* the fingerprint is built from a fresh unrestricted sample
FpTransform_Resampled(t) ==
    /\ threads[t].pc = "transform"
    /\ \E fresh \in generateSample(FingerprintNetwork, EmptyMap) :
          threads' = [threads EXCEPT ![t] = [@ EXCEPT !.pc = "done",
              !.result = transformFingerprint(fresh, threads[t].headers,
                                              generator.mockWebRTC, generator.slim)]]
    /\ UNCHANGED <<generator, built>>

\* return g.transformFingerprint(fingerprint, headers, g.mockWebRTC, g.slim)
FpTransform(t) ==
    /\ threads[t].pc = "transform"
    /\ threads' = [threads EXCEPT ![t] = [@ EXCEPT !.pc = "done",
           !.result = transformFingerprint(threads[t].raw, threads[t].headers,
                                           generator.mockWebRTC, generator.slim)]]
    /\ UNCHANGED <<generator, built>>

FpCall ==
    /\ \E t \in Goroutines : FpCallGenerate(t)
    /\ UNCHANGED <<bn, valuePossibilities, sampleSoFar, stack, ret, inputValues, sample,
                   pc, hdrVars, fnVars>>

FpStep ==
    /\ \E t \in Goroutines :
          \/ FpApplyOption(t)
          \/ FpGenerateHeaders(t)
          \/ FpSampleFingerprint(t)
          \/ FpTransform(t)
    /\ UNCHANGED <<bn, valuePossibilities, sampleSoFar, stack, ret, inputValues, sample,
                   pc, hdrVars, fnVars>>

FpInit ==
    /\ bn = FingerprintNetwork
    /\ valuePossibilities = EmptyMap
    /\ sampleSoFar = EmptyMap
    /\ stack = <<>>
    /\ ret = "none"
    /\ inputValues = EmptyMap
    /\ sample = EmptyMap
    /\ pc = "idle"
    /\ callerOptions = defaultHeaderOptions
    /\ calls = <<>>
    /\ hret = NoReturn
    /\ NoFn
    /\ \E opts \in ConstructorOptions :
          /\ generator = NewFingerprintGenerator(opts)
          /\ built = NewFingerprintGenerator(opts)
    /\ threads = [t \in Goroutines |-> NotCalled]

FpNext == FpCall \/ FpStep

FpSpec == FpInit /\ [][FpNext]_vars

-----------------------------------------------------------------------------
(* Properties of FingerprintGenerator.Generate (FpSpec) *)

\* Generate returned a fingerprint to goroutine t
GotFingerprint(t) == threads[t].pc = "done" /\ ~threads[t].result.isNil

\* C13: Generate leaves the generator's headerConstraints, screen, strict,
\* mockWebRTC and slim as they were at construction, and a Generate() with
\* no overrides returns a fingerprint with the flags given at construction.
C13_GeneratorImmutable ==
    /\ generator = built
    /\ \A t \in Goroutines :
          (GotFingerprint(t) /\ threads[t].own = <<>>) =>
              /\ threads[t].result.Slim = built.slim
              /\ threads[t].result.MockWebRTC = built.mockWebRTC

\* the value the last option of opts for a field carries
OwnOption(opts, field) ==
    LET at == {i \in DOMAIN opts : opts[i].field = field} IN
    opts[CHOOSE i \in at : \A j \in at : j <= i]

Sets(opts, field) == \E i \in DOMAIN opts : opts[i].field = field

\* C14: when Generate calls interleave, each call's output comes from the
\* overrides that call passed: its fingerprint carries its own slim and
\* mockWebRTC, its headers are headers of its own constraints, and with its
\* own strict = true it never returns a fallback sample.
C14_CallsUseOwnOptions ==
    \A t \in Goroutines :
        LET own == threads[t].own IN
        /\ (GotFingerprint(t) /\ Sets(own, "slim")) =>
               threads[t].result.Slim = OwnOption(own, "slim").flag
        /\ (GotFingerprint(t) /\ Sets(own, "mockWebRTC")) =>
               threads[t].result.MockWebRTC = OwnOption(own, "mockWebRTC").flag
        /\ (GotFingerprint(t) /\ Sets(own, "headerConstraints")) =>
               \E r \in HeadersFor[OwnOption(own, "headerConstraints").constraints] :
                   r.state = "returned" /\ r.err = "" /\ r.headers = threads[t].result.Headers
        /\ (Sets(own, "strict") /\ OwnOption(own, "strict").flag) =>
               threads[t].restricted # "failed"

\* the fingerprint network can bind userAgent to ua
UserAgentKnown(ua) ==
    Contains(NodesByName(FingerprintNetwork)["userAgent"].PossibleValues, ua)

\* C18: Generate samples the fingerprint network restricted to userAgent =
\* the generated User-Agent header; when that fails it returns an error
\* and no fingerprint if strict is set, and otherwise goes on with an
\* unrestricted sample of the fingerprint network.
C18_StrictOrFallback ==
    [][\A t \in Goroutines :
          (threads[t].pc = "sampling" /\ threads'[t].pc # "sampling") =>
              LET ua == threads[t].headers["User-Agent"] IN
              /\ UserAgentKnown(ua) =>
                    /\ threads'[t].pc = "transform"
                    /\ threads'[t].raw["userAgent"] = ua
                    /\ DOMAIN threads'[t].raw = NodeNames(FingerprintNetwork)
              /\ (~UserAgentKnown(ua) /\ generator.strict) =>
                    /\ threads'[t].pc = "done"
                    /\ threads'[t].result.isNil
                    /\ threads'[t].result.err # ""
              /\ (~UserAgentKnown(ua) /\ ~generator.strict) =>
                    /\ threads'[t].pc = "transform"
                    /\ threads'[t].raw \in generateSample(FingerprintNetwork, EmptyMap)]_vars

\* one call got a fingerprint from the fallback sample, another one the
\* strict error
C18_Witness ==
    \E t, u \in Goroutines :
        /\ GotFingerprint(t) /\ threads[t].restricted = "failed"
        /\ ~UserAgentKnown(threads[t].headers["User-Agent"])
        /\ threads[u].pc = "done" /\ threads[u].restricted = "failedStrict"
        /\ threads[u].result.isNil

\* the part of an Accept-Language segment before its first semicolon
BeforeSemicolon(segment) == Split(segment, ";")[1]

\* the tags of an Accept-Language value, cut at the commas
TagsOf(acceptLanguage) ==
    LET segments == Split(acceptLanguage, ",") IN
    [i \in DOMAIN segments |-> BeforeSemicolon(segments[i])]

\* the same with the white space around each tag removed
TrimmedTagsOf(acceptLanguage) ==
    LET segments == Split(acceptLanguage, ",") IN
    [i \in DOMAIN segments |-> TrimSpace(BeforeSemicolon(segments[i]))]

\* the locales the header of a fingerprint was built from
LocalesBehind(headers) ==
    {mergeOptions(c).merged.Locales : c \in {x \in ConstraintsInUse :
        /\ mergeOptions(x).err = ""
        /\ generateAcceptLanguageHeader(mergeOptions(x).merged.Locales)
              = headers["Accept-Language"]}}

-----------------------------------------------------------------------------
(* Accept-Language (HdrSpec and AcceptLanguageSpec) *)

\* the quality values of the first ten positions, as printed
QualityTexts == <<"1.0", "0.9", "0.8", "0.7", "0.6", "0.5", "0.4", "0.3", "0.2", "0.1">>

Min(a, b) == IF a < b THEN a ELSE b

\* the entries an Accept-Language value built from locales is to have
ExpectedEntries(locales) ==
    [i \in 1..Min(Len(locales), 10) |-> locales[i] \o ";q=" \o QualityTexts[i]]

\* C15: whenever GenerateHeaders returns headers for constraints with a
\* non-empty locales list L, on any path, the Accept-Language header holds
\* the first min(|L|, 10) tags of L in order, L[0] first.
C15_LocalesPropagate ==
    (/\ pc = "done" /\ hret.state = "returned" /\ ~hret.isNil
     /\ callerOptions.Locales # <<>>) =>
        /\ "Accept-Language" \in DOMAIN hret.headers
        /\ hret.headers["Accept-Language"]
              = Join(ExpectedEntries(callerOptions.Locales), ", ")


\* the longest locale list handed to generateAcceptLanguageHeader
MaxLocales == 12

LocaleTags ==
    <<"fr-FR", "de-DE", "en-US", "en", "es-ES", "it", "pt-BR", "nl", "sv-SE", "pl",
      "ja-JP", "zh-CN">>

\* the n tags that follow position start, going round the list
LocalesFrom(start, n) ==
    [i \in 1..n |-> LocaleTags[((start + i - 2) % Len(LocaleTags)) + 1]]

CallGenerateAcceptLanguageHeader ==
    /\ pc = "idle"
    /\ \E start \in DOMAIN LocaleTags, n \in 0..MaxLocales :
          /\ fnArg' = LocalesFrom(start, n)
          /\ fnRes' = generateAcceptLanguageHeader(LocalesFrom(start, n))
    /\ pc' = "called"
    /\ UNCHANGED <<bn, valuePossibilities, sampleSoFar, stack, ret, inputValues, sample,
                   hdrVars, fpVars>>

AcceptLanguageInit ==
    /\ bn = HeaderNetwork
    /\ valuePossibilities = EmptyMap
    /\ sampleSoFar = EmptyMap
    /\ stack = <<>>
    /\ ret = "none"
    /\ inputValues = EmptyMap
    /\ sample = EmptyMap
    /\ pc = "idle"
    /\ callerOptions = defaultHeaderOptions
    /\ calls = <<>>
    /\ hret = NoReturn
    /\ NoFn
    /\ NoGenerator

AcceptLanguageNext == CallGenerateAcceptLanguageHeader

AcceptLanguageSpec == AcceptLanguageInit /\ [][AcceptLanguageNext]_vars

\* the header the documentation describes, from entry i on
RECURSIVE ExpectedHeader(_, _)
ExpectedHeader(locales, i) ==
    IF i > Min(Len(locales), 10) THEN ""
    ELSE (IF i > 1 THEN ", " ELSE "") \o locales[i] \o ";q=" \o QualityTexts[i]
            \o ExpectedHeader(locales, i + 1)

\* the number of entries of a header: each entry holds ;q= once
EntryCount(header) ==
    Cardinality({i \in 1..(Len(header) - 2) : SubSeq(header, i, i + 2) = ";q="})

EndsWith(text, suffix) ==
    /\ Len(text) >= Len(suffix)
    /\ SubSeq(text, Len(text) - Len(suffix) + 1, Len(text)) = suffix

\* C16: generateAcceptLanguageHeader emits at most 10 entries; entry i
\* (0-based) is the i-th locale followed by ;q= and 1.0 - 0.1 * i printed
\* with one decimal, from 1.0 down to 0.1; the entries are joined by a
\* comma and a space.
C16_AcceptLanguageFormat ==
    pc = "called" =>
        /\ fnRes = ExpectedHeader(fnArg, 1)
        /\ EntryCount(fnRes) = Min(Len(fnArg), 10)
        /\ EntryCount(fnRes) <= 10

\* a list of more than ten locales was cut to ten entries, the last with
\* q=0.1
C16_Witness ==
    /\ pc = "called"
    /\ Len(fnArg) > 10
    /\ EntryCount(fnRes) = 10
    /\ EndsWith(fnRes, ", " \o fnArg[10] \o ";q=0.1")

-----------------------------------------------------------------------------
(* Sec-Fetch injection: the part of GenerateHeaders that follows the       *)
(* sampling of the input network, applied to input samples whose           *)
(* *BROWSER_HTTP lies on both sides of every threshold.                    *)

BrowserHTTPStrings ==
    {"chrome/76.0.3809.100|2", "chrome/75.0.3770.142|2", "chrome/131.0.0.0|2",
     "chrome/131.0.0.0|1", "chrome/9.0|2",
     "firefox/90.0|2", "firefox/89.0.2|2", "firefox/120.0|1",
     "edge/79.0.309.71|2", "edge/78.0|2", "edge/131.0|1",
     "safari/17.4|2", "opera/100.0|2", "Chrome/131.0|2",
     "*MISSING_VALUE*", "", "chrome", "chrome|2", "chrome/131.0|2|x",
     "chrome/131/0|2", "chrome/abc|2", "chrome/|2"}

InputSamples ==
    {[k \in {"*BROWSER_HTTP", "*OPERATING_SYSTEM", "*DEVICE"} |->
         CASE k = "*BROWSER_HTTP" -> b
           [] k = "*OPERATING_SYSTEM" -> os
           [] k = "*DEVICE" -> "desktop"] :
     b \in BrowserHTTPStrings, os \in {"windows", "macos"}}

SecFetchConstraints ==
    {[defaultHeaderOptions EXCEPT !.Locales = l, !.HTTPVersion = v] :
     l \in {<<>>, <<"en-US">>}, v \in {"1", "2"}}

\* GenerateHeaders from the sampling of the header network to its return
CallAfterSampling ==
    /\ pc = "idle"
    /\ \E constraints \in SecFetchConstraints, inputSample \in InputSamples :
          /\ fnArg' = [constraints |-> constraints, inputSample |-> inputSample]
          /\ fnRes' \in afterSampling(constraints, inputSample)
    /\ pc' = "called"
    /\ UNCHANGED <<bn, valuePossibilities, sampleSoFar, stack, ret, inputValues, sample,
                   hdrVars, fpVars>>

\* the call was a retry: the calling GenerateHeaders returns its result.  A
\* retry always asks for HTTP/2: the caller either set HTTPVersion to "2" or
\* relaxed constraints whose HTTPVersion was not "1"
ReturnThroughCaller ==
    /\ pc = "called"
    /\ fnArg.constraints.HTTPVersion = "2"
    /\ fnRes' \in afterRetry(fnRes)
    /\ pc' = "returned"
    /\ UNCHANGED <<bn, valuePossibilities, sampleSoFar, stack, ret, inputValues, sample,
                   hdrVars, fpVars, fnArg>>

SecFetchInit ==
    /\ bn = HeaderNetwork
    /\ valuePossibilities = EmptyMap
    /\ sampleSoFar = EmptyMap
    /\ stack = <<>>
    /\ ret = "none"
    /\ inputValues = EmptyMap
    /\ sample = EmptyMap
    /\ pc = "idle"
    /\ callerOptions = defaultHeaderOptions
    /\ calls = <<>>
    /\ hret = NoReturn
    /\ NoFn
    /\ NoGenerator

SecFetchNext == CallAfterSampling \/ ReturnThroughCaller

SecFetchSpec == SecFetchInit /\ [][SecFetchNext]_vars

SecFetchNames == {"Sec-Fetch-Mode", "Sec-Fetch-Dest", "Sec-Fetch-Site", "Sec-Fetch-User"}

\* the name and major version a *BROWSER_HTTP text of the form
\* name/major.minor...|httpVersion parses to
ParsedBrowser(text) ==
    LET halves == Split(text, "|")
        nameVersion == Split(halves[1], "/")
    IN IF Len(halves) # 2 \/ Len(nameVersion) # 2
       THEN [parsed |-> FALSE, name |-> "", major |-> 0]
       ELSE [parsed |-> TRUE, name |-> nameVersion[1],
             major |-> atoi(Split(nameVersion[2], ".")[1])]

SecFetchGate(text) ==
    LET b == ParsedBrowser(text) IN
    /\ text # missingValueToken
    /\ b.parsed
    /\ \/ b.name = "chrome" /\ b.major >= 76
       \/ b.name = "firefox" /\ b.major >= 90
       \/ b.name = "edge" /\ b.major >= 79

SecFetchReturned == pc \in {"called", "returned"} /\ ~fnRes.isNil

\* C17: in every header map GenerateHeaders returns, the four Sec-Fetch
\* headers are present when the sampled *BROWSER_HTTP parses to chrome of
\* major version 76 or more, firefox 90 or more, or edge 79 or more, and
\* no Sec-Fetch header is present otherwise (safari, lower versions, the
\* missing-value sentinel, texts that do not parse).
C17_SecFetchIffGate ==
    SecFetchReturned =>
        IF SecFetchGate(fnArg.inputSample["*BROWSER_HTTP"])
        THEN SecFetchNames \subseteq DOMAIN fnRes.headers
        ELSE \A k \in DOMAIN fnRes.headers : ToLower(SubSeq(k, 1, 9)) # "sec-fetch"

\* a retrying caller returned the headers sampled for chrome 76, the lowest
\* chrome version of the gate, with the four Sec-Fetch headers
C17_Witness ==
    /\ pc = "returned"
    /\ ~fnRes.isNil
    /\ fnArg.inputSample["*BROWSER_HTTP"] = "chrome/76.0.3809.100|2"
    /\ SecFetchNames \subseteq DOMAIN fnRes.headers
    /\ fnRes.headers["Sec-Fetch-Site"] = "?1"

-----------------------------------------------------------------------------
(* Network loader: loadNetworkFromZip and bayesianNetwork.loadNetwork.     *)
(* An archive is the embedded file: whether it can be read, whether it is  *)
(* a zip, and its entries; an entry can fail to open or to decompress,     *)
(* and its content is either malformed JSON or a list of node definitions. *)
(* A loaded node is its definition with parents and children, each a list  *)
(* of positions in NodesInSamplingOrder (the pointers of the code).        *)

NodeDefinition(name, parentNames) == [Name |-> name, ParentNames |-> parentNames]

ParentNameLists == SeqsUpTo({"A", "B", "ghost"}, 2)

NetworkDefinitions ==
    {<<>>}
    \cup {<<NodeDefinition("A", pa)>> : pa \in ParentNameLists}
    \cup {<<NodeDefinition("A", pa), NodeDefinition(nm, pb)>> :
             pa \in ParentNameLists, pb \in ParentNameLists, nm \in {"A", "B"}}

ZipEntry(status, malformed, nodes) ==
    [status |-> status, malformed |-> malformed, nodes |-> nodes]

ZipEntries ==
    {ZipEntry("unopenable", FALSE, <<>>), ZipEntry("unreadable", FALSE, <<>>),
     ZipEntry("ok", TRUE, <<>>)}
    \cup {ZipEntry("ok", FALSE, d) : d \in NetworkDefinitions}

Archive(readable, isZip, files) == [readable |-> readable, isZip |-> isZip, files |-> files]

Archives ==
    {Archive(FALSE, FALSE, <<>>), Archive(TRUE, FALSE, <<>>), Archive(TRUE, TRUE, <<>>)}
    \cup {Archive(TRUE, TRUE, <<e>>) : e \in ZipEntries}
    \cup {Archive(TRUE, TRUE, <<e, ZipEntry("ok", TRUE, <<>>)>>) : e \in ZipEntries}

newBayesianNetwork == [NodesInSamplingOrder |-> <<>>, NodesByName |-> [nm \in {} |-> 0]]

\* the names of ParentNames from position i on that are keys of byName, as
\* the positions they are bound to
RECURSIVE resolvedParents(_, _, _)
resolvedParents(parentNames, byName, i) ==
    IF i > Len(parentNames) THEN <<>>
    ELSE (IF parentNames[i] \in DOMAIN byName THEN <<byName[parentNames[i]]>> ELSE <<>>)
         \o resolvedParents(parentNames, byName, i + 1)

\* how many times position q occurs in a list of positions
RECURSIVE occurrences(_, _, _)
occurrences(positions, q, i) ==
    IF i > Len(positions) THEN <<>>
    ELSE (IF positions[i] = q THEN <<q>> ELSE <<>>) \o occurrences(positions, q, i + 1)

\* the children appended to the node at position q while the nodes of
\* NodesByName are visited in the given order of names, from the i-th on
RECURSIVE childrenOf(_, _, _, _, _)
childrenOf(q, defs, byName, order, i) ==
    IF i > Len(order) THEN <<>>
    ELSE LET child == byName[order[i]]
             links == occurrences(resolvedParents(defs[child].ParentNames, byName, 1), q, 1)
         IN [j \in 1..Len(links) |-> child] \o childrenOf(q, defs, byName, order, i + 1)

\* the results loadNetwork can leave in a new network: one per order in
\* which the range loop over NodesByName visits the nodes.  A name defined
\* twice is bound to its last definition, and only the bound definitions
\* get parents and children.
loadNetwork(data) ==
    IF data.malformed
    THEN {[err |-> "error unmarshaling JSON", network |-> newBayesianNetwork]}
    ELSE LET defs == data.nodes
             names == {defs[i].Name : i \in DOMAIN defs}
             byName == [nm \in names |->
                          CHOOSE i \in DOMAIN defs :
                             /\ defs[i].Name = nm
                             /\ \A j \in DOMAIN defs : defs[j].Name = nm => j <= i]
             bound(i) == byName[defs[i].Name] = i
         IN {[err |-> "",
              network |->
                 [NodesInSamplingOrder |->
                     [i \in DOMAIN defs |->
                        [Name |-> defs[i].Name, ParentNames |-> defs[i].ParentNames,
                         parents |-> IF bound(i)
                                     THEN resolvedParents(defs[i].ParentNames, byName, 1)
                                     ELSE <<>>,
                         children |-> childrenOf(i, defs, byName, order, 1)]],
                  NodesByName |-> byName]] :
             order \in Orders(names)}

LoadError(err) == [err |-> err, isNil |-> TRUE, network |-> newBayesianNetwork]

loadNetworkFromZip(archive) ==
    IF ~archive.readable THEN {LoadError("failed to read")}
    ELSE IF ~archive.isZip THEN {LoadError("failed to create zip reader")}
    ELSE IF Len(archive.files) = 0 THEN {LoadError("no files found in zip")}
    ELSE IF archive.files[1].status = "unopenable"
         THEN {LoadError("failed to open file in zip")}
    ELSE IF archive.files[1].status = "unreadable"
         THEN {LoadError("failed to read file contents")}
    ELSE {IF r.err # "" THEN LoadError("failed to load network: " \o r.err)
          ELSE [err |-> "", isNil |-> FALSE, network |-> r.network] :
          r \in loadNetwork(archive.files[1])}

CallLoadNetworkFromZip ==
    /\ pc = "idle"
    /\ \E archive \in Archives :
          /\ fnArg' = archive
          /\ fnRes' \in loadNetworkFromZip(archive)
    /\ pc' = "called"
    /\ UNCHANGED <<bn, valuePossibilities, sampleSoFar, stack, ret, inputValues, sample,
                   hdrVars, fpVars>>

LoadInit ==
    /\ bn = HeaderNetwork
    /\ valuePossibilities = EmptyMap
    /\ sampleSoFar = EmptyMap
    /\ stack = <<>>
    /\ ret = "none"
    /\ inputValues = EmptyMap
    /\ sample = EmptyMap
    /\ pc = "idle"
    /\ callerOptions = defaultHeaderOptions
    /\ calls = <<>>
    /\ hret = NoReturn
    /\ NoFn
    /\ NoGenerator

LoadNext == CallLoadNetworkFromZip

LoadSpec == LoadInit /\ [][LoadNext]_vars

\* the archive's first entry defines a node with a parent name that no node
\* of the definition bears
UnknownParent(archive) ==
    /\ archive.readable /\ archive.isZip /\ Len(archive.files) > 0
    /\ archive.files[1].status = "ok" /\ ~archive.files[1].malformed
    /\ LET defs == archive.files[1].nodes IN
       \E i \in DOMAIN defs : \E k \in DOMAIN defs[i].ParentNames :
          \A j \in DOMAIN defs : defs[j].Name # defs[i].ParentNames[k]

EmptyOrMalformed(archive) ==
    \/ ~archive.readable \/ ~archive.isZip \/ Len(archive.files) = 0
    \/ archive.files[1].status # "ok"
    \/ archive.files[1].malformed

\* C20: loading fails with an error when a node names a parent that is not
\* a node of the same network, and when the archive is empty or malformed;
\* a network that was loaded has every parent name resolved: each node's
\* linked parents are as many as its parentNames and in the same order.
C20_LoadFailsOnUnknownParent ==
    pc = "called" =>
        /\ (UnknownParent(fnArg) \/ EmptyOrMalformed(fnArg)) => fnRes.err # ""
        /\ fnRes.err = "" =>
              \A i \in DOMAIN fnRes.network.NodesInSamplingOrder :
                 LET nd == fnRes.network.NodesInSamplingOrder[i] IN
                 /\ Len(nd.parents) = Len(nd.ParentNames)
                 /\ \A k \in DOMAIN nd.parents :
                       fnRes.network.NodesInSamplingOrder[nd.parents[k]].Name
                          = nd.ParentNames[k]

-----------------------------------------------------------------------------
(* mergeOptions applied to user options whose lists mix supported and      *)
(* unsupported values.                                                     *)

\* the state before a function of the package is applied to an argument
FnInit ==
    /\ bn = HeaderNetwork
    /\ valuePossibilities = EmptyMap
    /\ sampleSoFar = EmptyMap
    /\ stack = <<>>
    /\ ret = "none"
    /\ inputValues = EmptyMap
    /\ sample = EmptyMap
    /\ pc = "idle"
    /\ callerOptions = defaultHeaderOptions
    /\ calls = <<>>
    /\ hret = NoReturn
    /\ NoFn
    /\ NoGenerator

MergeInputs ==
    {HeaderConstraints(<<>>, b, o, d, <<>>, v, FALSE) :
        b \in SeqsUpTo({"chrome", "safari", "netscape"}, MaxListLen),
        o \in {<<>>, <<"linux">>, <<"beos">>, <<"linux", "beos">>, <<"beos", "windows">>},
        d \in {<<>>, <<"mobile">>, <<"watch">>, <<"mobile", "desktop">>},
        v \in {"", "1", "2", "3"}}

CallMergeOptions ==
    /\ pc = "idle"
    /\ \E userOptions \in MergeInputs :
          /\ fnArg' = userOptions
          /\ fnRes' = mergeOptions(userOptions)
    /\ pc' = "called"
    /\ UNCHANGED <<bn, valuePossibilities, sampleSoFar, stack, ret, inputValues, sample,
                   hdrVars, fpVars>>

MergeNext == CallMergeOptions

MergeSpec == FnInit /\ [][MergeNext]_vars

\* what the documentation gives as the merged list of one field
DocumentedMerge(userList, supported, default) ==
    LET kept == SelectSeq(userList, LAMBDA v : v \in Range(supported)) IN
    IF kept # <<>> THEN kept ELSE default

SomeUnsupported(userList, supported) ==
    \E i \in DOMAIN userList : userList[i] \notin Range(supported)

\* C21: for each of browsers, os and devices the merged list is the user's
\* supported values in their original order when there is at least one,
\* and the default (all supported values) when the user list is empty or
\* holds no supported value; an error is returned alongside exactly when
\* some user value was unsupported.
C21_MergeKeepsSupportedValues ==
    pc = "called" =>
        /\ fnRes.merged.Browsers
              = DocumentedMerge(fnArg.Browsers, SupportedBrowsers, SupportedBrowsers)
        /\ fnRes.merged.OS = DocumentedMerge(fnArg.OS, SupportedOS, SupportedOS)
        /\ fnRes.merged.Devices
              = DocumentedMerge(fnArg.Devices, SupportedDevices, SupportedDevices)
        /\ fnRes.err # "" <=>
              \/ SomeUnsupported(fnArg.Browsers, SupportedBrowsers)
              \/ SomeUnsupported(fnArg.OS, SupportedOS)
              \/ SomeUnsupported(fnArg.Devices, SupportedDevices)
              \/ fnArg.HTTPVersion \notin {"", "1", "2"}

\* a list with a supported and an unsupported value was merged: the
\* supported value replaced the default and an error came alongside
C21_Witness ==
    /\ pc = "called"
    /\ fnArg.Browsers = <<"netscape", "safari">>
    /\ fnArg.OS = <<"beos">>
    /\ fnArg.HTTPVersion = "2"
    /\ fnRes.merged.Browsers = <<"safari">>
    /\ fnRes.merged.OS = SupportedOS
    /\ fnRes.err # ""

-----------------------------------------------------------------------------
(* bayesianNetwork.getProbability and infer.  The probabilities of the     *)
(* networks are weights in tenths.                                         *)

\* node.parents as loadNetwork links them: the parent names that are nodes
linkedParents(net, n) == SelectSeq2(n.ParentNames, 1, NodeNames(net))

\* current[value].(float64), 0.0 when the entry is missing or no number
leafEntry(current, value) ==
    IF value \in DOMAIN current.probs THEN current.probs[value] ELSE 0

RECURSIVE navigateDeeper(_, _, _, _)
\* the loop over parentValues of getProbability: a level without deeper or
\* without the parent's value ends the call with 0.0
navigateDeeper(current, parentValues, i, value) ==
    IF i > Len(parentValues) THEN leafEntry(current, value)
    ELSE IF current.hasDeeper
         THEN IF parentValues[i] \in DOMAIN current.deeper
              THEN navigateDeeper(current.deeper[parentValues[i]], parentValues, i + 1, value)
              ELSE 0
         ELSE 0

\* the parents are ignored: the entry of the top table is returned
getProbability_MarginalOnly(net, nodeName, value, evidence) ==
    IF nodeName \notin NodeNames(net) THEN 0
    ELSE leafEntry(NodesByName(net)[nodeName].ConditionalProbs, value)

getProbability(net, nodeName, value, evidence) ==
    IF nodeName \notin NodeNames(net) THEN 0
    ELSE LET n == NodesByName(net)[nodeName]
             parents == linkedParents(net, n)
         IN IF Len(parents) = 0 THEN leafEntry(n.ConditionalProbs, value)
            ELSE IF \E i \in DOMAIN parents : parents[i] \notin DOMAIN evidence THEN 0
            ELSE navigateDeeper(n.ConditionalProbs,
                                [i \in DOMAIN parents |-> evidence[parents[i]]], 1, value)

\* [isNil, distribution]
infer(net, nodeName, evidence) ==
    IF nodeName \notin NodeNames(net) THEN [isNil |-> TRUE, distribution |-> EmptyMap]
    ELSE [isNil |-> FALSE,
          distribution |->
             [v \in Range(NodesByName(net)[nodeName].PossibleValues) |->
                 getProbability(net, nodeName, v, evidence)]]

CallGetProbability ==
    /\ pc = "idle"
    /\ \E nodeName \in NodeNames(bn) \cup {"unknown"}, evidence \in SeedMaps(bn) :
       \E value \in (IF nodeName \in NodeNames(bn)
                     THEN RestrictionValues(NodesByName(bn)[nodeName])
                     ELSE {"invalid"}) :
          /\ fnArg' = [nodeName |-> nodeName, value |-> value, evidence |-> evidence]
          /\ fnRes' = [probability |-> getProbability(bn, nodeName, value, evidence),
                       inferred |-> infer(bn, nodeName, evidence)]
    /\ pc' = "probability"
    /\ UNCHANGED <<bn, valuePossibilities, sampleSoFar, stack, ret, inputValues, sample,
                   hdrVars, fpVars>>

\* the CPT navigator on its own; the parents may be bound to any value or
\* left unbound
CallGetProbabilitiesGivenKnownValues ==
    /\ pc = "idle"
    /\ \E i \in DOMAIN bn.NodesInSamplingOrder, parentValues \in SeedMaps(bn) :
          /\ fnArg' = [nodeName |-> bn.NodesInSamplingOrder[i].Name,
                       parentValues |-> parentValues]
          /\ fnRes' = getProbabilitiesGivenKnownValues(bn.NodesInSamplingOrder[i],
                                                       parentValues)
    /\ pc' = "navigated"
    /\ UNCHANGED <<bn, valuePossibilities, sampleSoFar, stack, ret, inputValues, sample,
                   hdrVars, fpVars>>

\* one draw of the restricted sampler; the panic of the navigator it calls
\* first ends the call
CallSampleAccordingToRestrictions ==
    /\ pc = "idle"
    /\ \E i \in DOMAIN bn.NodesInSamplingOrder, parentValues \in SeedMaps(bn),
          anchor \in Anchors :
       LET n == bn.NodesInSamplingOrder[i] IN
       \E possibilities \in SeqsUpTo(RestrictionValues(n), MaxListLen),
          bannedValues \in SeqsUpTo(Range(n.PossibleValues), 1) :
          /\ fnArg' = [nodeName |-> n.Name, parentValues |-> parentValues,
                       possibilities |-> possibilities, bannedValues |-> bannedValues,
                       anchor |-> anchor]
          /\ fnRes' = IF getProbabilitiesGivenKnownValues(n, parentValues).panic
                      THEN [panic |-> TRUE, ok |-> FALSE, value |-> ""]
                      ELSE LET d == sampleAccordingToRestrictions(
                                       n, parentValues, possibilities, bannedValues, anchor)
                           IN [panic |-> FALSE, ok |-> d.ok, value |-> d.value]
    /\ pc' = "drawn"
    /\ UNCHANGED <<bn, valuePossibilities, sampleSoFar, stack, ret, inputValues, sample,
                   hdrVars, fpVars>>

ProbNext ==
    \/ CallGetProbability
    \/ CallGetProbabilitiesGivenKnownValues
    \/ CallSampleAccordingToRestrictions

ProbSpec == NetInit /\ [][ProbNext]_vars

\* a probability of 1, in the tenths the networks are written in
WholeWeight == 10

RECURSIVE SumOver(_, _)
SumOver(f, keys) ==
    IF keys = {} THEN 0
    ELSE LET k == CHOOSE x \in keys : TRUE IN f[k] + SumOver(f, keys \ {k})

RECURSIVE TableAt(_, _, _, _)
\* the table the path through deeper leads to, when every parent is bound
\* and every level has the parent's value under deeper
TableAt(table, parentNames, evidence, i) ==
    IF i > Len(parentNames) THEN [exists |-> TRUE, table |-> table]
    ELSE IF /\ parentNames[i] \in DOMAIN evidence
            /\ table.hasDeeper
            /\ evidence[parentNames[i]] \in DOMAIN table.deeper
         THEN TableAt(table.deeper[evidence[parentNames[i]]], parentNames, evidence, i + 1)
         ELSE [exists |-> FALSE, table |-> table]

ToyProbabilities ==
    /\ getProbability(ToyNetwork, "A", "a1", EmptyMap) = 6
    /\ getProbability(ToyNetwork, "B", "b1", Put(EmptyMap, "A", "a1")) = 7
    /\ getProbability(ToyNetwork, "B", "b2", Put(EmptyMap, "A", "a2")) = 8

\* C22: getProbability(node, value, evidence) is the entry for value of the
\* CPT leaf when evidence binds every parent and the path through deeper
\* exists (toy network: 0.6, 0.7, 0.8), and 0 when the node is unknown, a
\* parent is unbound or the path does not exist; when the path exists the
\* results over all values of the node sum to 1.
C22_ProbabilityIsLeafEntry ==
    pc = "probability" =>
        /\ ToyProbabilities
        /\ IF fnArg.nodeName \notin NodeNames(bn) THEN fnRes.probability = 0
           ELSE LET n == NodesByName(bn)[fnArg.nodeName]
                    at == TableAt(n.ConditionalProbs, n.ParentNames, fnArg.evidence, 1)
                IN IF ~at.exists THEN fnRes.probability = 0
                   ELSE /\ fnRes.probability
                             = (IF fnArg.value \in DOMAIN at.table.probs
                                THEN at.table.probs[fnArg.value] ELSE 0)
                        /\ SumOver(fnRes.inferred.distribution,
                                   DOMAIN fnRes.inferred.distribution) = WholeWeight

\* P(B = b2 | A = a2) = 0.8 was computed on the toy network
C22_Witness ==
    /\ pc = "probability"
    /\ bn = ToyNetwork
    /\ fnArg.nodeName = "B" /\ fnArg.value = "b2"
    /\ fnArg.evidence = Put(EmptyMap, "A", "a2")
    /\ fnRes.probability = 8
    /\ fnRes.inferred.distribution["b1"] = 2

-----------------------------------------------------------------------------
(* The CPT navigator and the samplers *)

\* C23: getProbabilitiesGivenKnownValues never signals an error: it takes
\* deeper[parent value] when present, otherwise skip, and stops descending
\* where there is no deeper; when a parent value has no branch and there is
\* no skip table it yields an empty or partial mapping, which the restricted
\* sampler treats as "no legal value", and the call is not aborted.
C23_NavigatorNeverAborts ==
    pc \in {"navigated", "drawn"} => ~fnRes.panic

RECURSIVE Cumulative(_, _, _)
\* the weight accumulated over the first k values
Cumulative(values, weights, k) ==
    IF k = 0 THEN 0
    ELSE Cumulative(values, weights, k - 1)
         + (IF values[k] \in DOMAIN weights THEN weights[values[k]] ELSE 0)

\* the first value whose cumulative weight strictly exceeds u, and the
\* first value when there is none
FirstExceeding(values, weights, u) ==
    LET hits == {k \in DOMAIN values : Cumulative(values, weights, k) > u} IN
    IF hits = {} THEN values[1]
    ELSE values[CHOOSE k \in hits : \A j \in hits : k <= j]

\* the node and the legal values of the draw in fnArg: allowed values that
\* are keys of the leaf and not banned, in the order of the allowed list
DrawnNode == NodesByName(bn)[fnArg.nodeName]

DrawnLeaf == getProbabilitiesGivenKnownValues(DrawnNode, fnArg.parentValues).probs

LegalValues ==
    SelectSeq(fnArg.possibilities,
              LAMBDA v : v \in DOMAIN DrawnLeaf /\ v \notin Range(fnArg.bannedValues))

\* C24: sampleRandomValueFromPossibilities(values, weights) with draw u
\* returns the first value, in the order of values, whose cumulative weight
\* strictly exceeds u, and values[0] when no cumulative weight exceeds u;
\* the result is a member of values; sampleAccordingToRestrictions returns
\* a value of allowed /\ keys(leaf) minus banned, or no value exactly when
\* that set is empty.
C24_DrawIsFirstExceeding ==
    (pc = "drawn" /\ ~fnRes.panic) =>
        /\ fnRes.ok <=> LegalValues # <<>>
        /\ fnRes.ok =>
              /\ fnRes.value \in Range(LegalValues)
              /\ fnRes.value = FirstExceeding(LegalValues, DrawnLeaf, fnArg.anchor)

\* a draw over two legal values whose anchor equals the weight of the first:
\* the first does not strictly exceed it and the second was returned
C24_Witness ==
    /\ pc = "drawn" /\ ~fnRes.panic /\ fnRes.ok
    /\ Len(LegalValues) = 2 /\ LegalValues[1] # LegalValues[2]
    /\ Cumulative(LegalValues, DrawnLeaf, 1) = fnArg.anchor
    /\ fnRes.value = LegalValues[2]

-----------------------------------------------------------------------------
(* Order of the fallback chain of GenerateHeaders *)

\* the call on top of the stack has just seen its restricted sampling fail
FailedWith(httpVersion) ==
    SearchFailed /\ TopCall.constraints.HTTPVersion = httpVersion

\* the step pushes a nested call made by a caller left at position at
Retries(at) ==
    /\ Len(calls') = Len(calls) + 1
    /\ calls'[Len(calls)].pc = at

NestedCall == calls'[Len(calls')]

-----------------------------------------------------------------------------
(* generateSample and its seed *)

\* the values node n can be drawn with when its parents hold the values of smp
DrawableGiven(n, smp) == DOMAIN getProbabilitiesGivenKnownValues(n, smp).probs

\* C26: generateSample(seed) works on a copy: the returned assignment
\* agrees with seed on every key seed binds, only the nodes seed leaves
\* unbound are drawn, each after its parents, and seed is left as it was;
\* so the header-network sample carries the input sample's *BROWSER_HTTP,
\* *OPERATING_SYSTEM and *DEVICE, and the browser of the Sec-Fetch decision
\* is the one selected under the restrictions.
C26_SampleKeepsSeed ==
    [][SearchSucceeded =>
          /\ inputValues' = sampleSoFar
          /\ \A k \in DOMAIN sampleSoFar : k \in DOMAIN sample' /\ sample'[k] = sampleSoFar[k]
          /\ {"*BROWSER_HTTP", "*OPERATING_SYSTEM", "*DEVICE"} \subseteq DOMAIN sampleSoFar
          /\ DOMAIN sample' = DOMAIN sampleSoFar \cup NodeNames(HeaderNetwork)
          /\ \A i \in DOMAIN HeaderNetwork.NodesInSamplingOrder :
                LET n == HeaderNetwork.NodesInSamplingOrder[i] IN
                n.Name \notin DOMAIN sampleSoFar => sample'[n.Name] \in DrawableGiven(n, sample')
          /\ ~hret'.isNil =>
                (SecFetchNames \subseteq DOMAIN hret'.headers
                   <=> SecFetchGate(sampleSoFar["*BROWSER_HTTP"]))
      ]_vars

\* the headers of a call were built from a sample that extends the input
\* sample, whose browser passed the Sec-Fetch gate
C26_Witness ==
    /\ pc = "done" /\ ~hret.isNil
    /\ DOMAIN inputValues = {"*BROWSER_HTTP", "*OPERATING_SYSTEM", "*DEVICE"}
    /\ "user-agent" \in DOMAIN sample
    /\ sample["*BROWSER_HTTP"] = inputValues["*BROWSER_HTTP"]
    /\ inputValues["*BROWSER_HTTP"] = "firefox/120.0|2"
    /\ "Sec-Fetch-Mode" \in DOMAIN hret.headers

-----------------------------------------------------------------------------
(* Rollback of the backtracking search *)

\* the partial assignment binds exactly the nodes at positions 0..k-1, each
\* to the value the call at its depth bound it to
BindsFirst(k) ==
    /\ DOMAIN sampleSoFar = {NodeAt(i).Name : i \in 0..(k - 1)}
    /\ \A i \in 1..k : sampleSoFar[NodeAt(i - 1).Name] = stack[i].sampleValue

\* C27: on entry to depth d the partial assignment binds exactly the nodes
\* at sampling-order positions 0..d-1, and when a call at depth d returns
\* failure the partial assignment is as it was on entry to that call; a
\* failed top-level call leaves it empty.
C27_RollbackInvariant ==
    pc \in {"search", "searched"} =>
        /\ (stack # <<>> /\ ret = "none") => BindsFirst(depth)
        /\ ret = "fail" => BindsFirst(Len(stack))
        /\ (stack = <<>> /\ ret = "fail") => sampleSoFar = EmptyMap

\* the call at depth 1 has returned failure for the second value tried at
\* depth 0: only the node at position 0 is bound
C27_Witness ==
    /\ pc = "search"
    /\ ret = "fail"
    /\ Len(stack) = 1
    /\ stack[1].bannedValues # <<>>
    /\ DOMAIN sampleSoFar = {NodeAt(0).Name}

-----------------------------------------------------------------------------
(* prepareConstraints and the restricted sampling that follows it in       *)
(* GenerateHeaders, for merged constraints whose browser selection may     *)
(* match no unique-browser record.                                         *)

PrepareSpecs ==
    {<<>>,
     <<BrowserSpec("opera", 0, 0, "")>>,
     <<BrowserSpec("chrome", 200, 0, "")>>,
     <<BrowserSpec("chrome", 80, 75, "")>>,
     <<BrowserSpec("safari", 17, 0, "1")>>,
     <<BrowserSpec("chrome", 100, 131, "")>>,
     <<BrowserSpec("firefox", 0, 0, "1"), BrowserSpec("opera", 0, 0, "")>>}

PrepareInputs ==
    {HeaderConstraints(sp, b, o, d, <<"en-US">>, v, FALSE) :
        sp \in PrepareSpecs,
        b \in {SupportedBrowsers, <<"safari">>, <<"edge">>, <<"chrome", "firefox">>},
        o \in {SupportedOS, <<"windows">>, <<"linux">>, <<"android", "macos">>},
        d \in {SupportedDevices, <<"mobile">>, <<"desktop">>},
        v \in {"1", "2"}}

\* GenerateHeaders from prepareConstraints to the return of
\* generateConsistentSampleWhenPossible
CallPrepareConstraints ==
    /\ pc = "idle"
    /\ \E constraints \in PrepareInputs :
          /\ fnArg' = constraints
          /\ \E r \in generateConsistentSampleWhenPossible(
                         InputNetwork, prepareConstraints(constraints)) :
                fnRes' = [restrictions |-> prepareConstraints(constraints),
                          ok |-> r.ok, inputSample |-> r.sample]
    /\ pc' = "prepared"
    /\ UNCHANGED <<bn, valuePossibilities, sampleSoFar, stack, ret, inputValues, sample,
                   hdrVars, fpVars>>

PrepareNext == CallPrepareConstraints

PrepareSpec == FnInit /\ [][PrepareNext]_vars

\* the unique-browser records the browser selection of constraints matches:
\* by the specs when there are any, by browser name and HTTP version otherwise
SelectionMatches(constraints) ==
    {j \in DOMAIN uniqueBrowsers :
        LET r == uniqueBrowsers[j] IN
        IF constraints.BrowserSpecs # <<>>
        THEN \E i \in DOMAIN constraints.BrowserSpecs :
                LET sp == constraints.BrowserSpecs[i] IN
                /\ r.Name = sp.Name
                /\ sp.HTTPVersion \in {"", r.HTTPVersion}
                /\ (sp.MinVersion <= 0 \/ sp.MinVersion <= r.Version[1])
                /\ (sp.MaxVersion <= 0 \/ sp.MaxVersion >= r.Version[1])
        ELSE /\ Contains(constraints.Browsers, r.Name)
             /\ r.HTTPVersion = constraints.HTTPVersion}

\* C28: when the browser selection matches no unique-browser record the
\* *BROWSER_HTTP key is left out of the restriction map, so the sampling
\* does not fail on it and *BROWSER_HTTP is sampled unrestricted; a key is
\* in the restriction map only with a non-empty list.
C28_EmptyListsOmitted ==
    pc = "prepared" =>
        /\ \A k \in DOMAIN fnRes.restrictions : fnRes.restrictions[k] # <<>>
        /\ SelectionMatches(fnArg) = {} =>
              /\ "*BROWSER_HTTP" \notin DOMAIN fnRes.restrictions
              /\ fnRes.ok =>
                    fnRes.inputSample["*BROWSER_HTTP"]
                       \in Range(InputNetwork.NodesInSamplingOrder[3].PossibleValues)
              /\ ~fnRes.ok =>
                    ConsistentAssignments(
                        InputNetwork,
                        [k \in DOMAIN fnRes.restrictions \ {"*BROWSER_HTTP"} |->
                            fnRes.restrictions[k]]) = {}

\* specs that name an unknown browser matched nothing and the sampling
\* returned a browser nobody asked for
C28_Witness ==
    /\ pc = "prepared"
    /\ fnArg.BrowserSpecs = <<BrowserSpec("opera", 0, 0, "")>>
    /\ fnArg.Browsers = <<"edge">>
    /\ "*BROWSER_HTTP" \notin DOMAIN fnRes.restrictions
    /\ "*OPERATING_SYSTEM" \in DOMAIN fnRes.restrictions
    /\ fnRes.ok
    /\ fnRes.inputSample["*BROWSER_HTTP"] = "safari/17.4|2"

-----------------------------------------------------------------------------
(* Navigator.UserAgent against the User-Agent header (FpSpec) *)

\* the fingerprint of goroutine t carries the user agent of its headers
UserAgentsAgree(result) == result.Navigator.UserAgent = result.Headers["User-Agent"]

\* C29: with the generator's strict flag true when Generate reads it, the
\* call never goes on with the unconditional sample, and a returned
\* fingerprint whose Navigator.UserAgent differs from Headers["User-Agent"]
\* comes from that unconditional sample only.
C29_StrictUserAgentMatches ==
    [][\A t \in Goroutines :
          /\ (threads[t].pc = "sampling" /\ threads'[t].pc # "sampling"
                 /\ generator.strict) =>
                /\ threads'[t].restricted # "failed"
                /\ threads'[t].pc = "transform" =>
                      threads'[t].raw["userAgent"] = threads[t].headers["User-Agent"]
          /\ (threads[t].pc = "transform" /\ threads'[t].pc = "done"
                 /\ ~threads'[t].result.isNil) =>
                /\ threads'[t].result.Headers = threads[t].headers
                /\ threads[t].restricted = "ok" => UserAgentsAgree(threads'[t].result)
                /\ ~UserAgentsAgree(threads'[t].result) =>
                      threads[t].restricted = "failed"]_vars

\* a strict generator returned a fingerprint whose user agents agree, and a
\* call that fell back returned one whose user agents differ
C29_Witness ==
    \E t, u \in Goroutines :
        /\ generator.strict /\ built.strict
        /\ GotFingerprint(t) /\ threads[t].restricted = "ok"
        /\ threads[t].result.Navigator.UserAgent # ""
        /\ UserAgentsAgree(threads[t].result)
        /\ \A v \in Goroutines : threads[v].restricted # "failed"

\* a fallback sample whose user agent is not the one of the headers
C29_FallbackDiffers ==
    \E t \in Goroutines :
        /\ GotFingerprint(t) /\ threads[t].restricted = "failed"
        /\ ~UserAgentsAgree(threads[t].result)

-----------------------------------------------------------------------------
(* pascalizeHeaders applied once and twice *)

HeaderKeys ==
    {"user-agent", "USER-AGENT", "Accept", "accept-language", "sEC-fETCH-mODE",
     "sec-ch-ua", "sec-ch-ua-mobile", "x-custom", "X-Forwarded-For", "dnt"}

\* most keys a header map handed to pascalizeHeaders on its own has
MaxKeys == 3

\* header maps; the value of a key is the key itself, so that a change of
\* a value would show
HeaderMaps ==
    {[k \in ks |-> k] : ks \in {x \in SUBSET HeaderKeys : Cardinality(x) <= MaxKeys}}

\* the header maps a recursive call of GenerateHeaders returns
ReturnedMaps ==
    UNION {{r.headers : r \in {x \in HeadersFor[c] : x.state = "returned" /\ ~x.isNil}} :
              c \in ConstraintsInUse}

\* pascalizeHeaders(pascalizeHeaders(headers)), with headers either any
\* header map or the result of a recursive GenerateHeaders as on the
\* fallback paths
CallPascalizeHeaders ==
    /\ pc = "idle"
    /\ \E returned \in BOOLEAN :
       \E headers \in (IF returned THEN ReturnedMaps ELSE HeaderMaps) :
          /\ fnArg' = [headers |-> headers, returned |-> returned]
          /\ \E once \in pascalizeHeaders(headers) :
             \E twice \in pascalizeHeaders(once) :
                fnRes' = [once |-> once, twice |-> twice]
    /\ pc' = "pascalized"
    /\ UNCHANGED <<bn, valuePossibilities, sampleSoFar, stack, ret, inputValues, sample,
                   hdrVars, fpVars>>

PascalNext == CallPascalizeHeaders

PascalSpec == FnInit /\ [][PascalNext]_vars

\* no two keys of headers are equal up to case
CaseDistinct(headers) ==
    \A k1, k2 \in DOMAIN headers : ToLower(k1) = ToLower(k2) => k1 = k2

TitleCasedHeaders ==
    {"User-Agent", "Accept-Language", "Accept-Encoding", "Accept",
     "Content-Type", "Content-Length", "Connection", "Host", "Referer",
     "Origin", "Cache-Control", "Pragma", "Upgrade-Insecure-Requests",
     "Sec-Fetch-Mode", "Sec-Fetch-Dest", "Sec-Fetch-Site", "Sec-Fetch-User"}

\* the documented name of key k: the Title-Cased spelling of a well-known
\* header, k itself otherwise
DocumentedName(k) ==
    IF \E n \in TitleCasedHeaders : ToLower(n) = ToLower(k)
    THEN CHOOSE n \in TitleCasedHeaders : ToLower(n) = ToLower(k)
    ELSE k

\* C30: on a header map whose keys are distinct up to case a second
\* pascalizeHeaders changes nothing; the first one stores well-known names
\* Title-Cased and leaves sec-ch-* names, all other names and all values as
\* they are; and pascalizeHeaders of a map a recursive GenerateHeaders
\* returned is that map.
C30_PascalizeIdempotent ==
    pc = "pascalized" =>
        /\ CaseDistinct(fnArg.headers) =>
              /\ fnRes.twice = fnRes.once
              /\ pascalizeHeaders(fnArg.headers) = {fnRes.once}
              /\ DOMAIN fnRes.once = {DocumentedName(k) : k \in DOMAIN fnArg.headers}
              /\ \A k \in DOMAIN fnArg.headers :
                    fnRes.once[DocumentedName(k)] = fnArg.headers[k]
              /\ \A k \in DOMAIN fnArg.headers :
                    HasPrefix(k, "sec-ch-") => k \in DOMAIN fnRes.once
        /\ fnArg.returned =>
              /\ CaseDistinct(fnArg.headers)
              /\ fnRes.once = fnArg.headers

\* a map with a well-known name in mixed case, a client hint and another
\* name went through both applications
C30_Witness ==
    /\ pc = "pascalized"
    /\ DOMAIN fnArg.headers = {"sEC-fETCH-mODE", "sec-ch-ua", "x-custom"}
    /\ DOMAIN fnRes.twice = {"Sec-Fetch-Mode", "sec-ch-ua", "x-custom"}
    /\ fnRes.twice["Sec-Fetch-Mode"] = "sEC-fETCH-mODE"

\* the headers of a recursive call went through pascalizeHeaders again
C30_ReturnedWitness ==
    /\ pc = "pascalized" /\ fnArg.returned
    /\ "User-Agent" \in DOMAIN fnRes.once
    /\ \E k \in DOMAIN fnRes.once : HasPrefix(k, "sec-ch-")

====
